---------------------------- MODULE Spec2Model ----------------------------
(***************************************************************************)
(* A model of busycrab: the main thread (builder calls, BusyCrab::run and  *)
(* the Activity Loop), the Ctrl+C handler, and the animation thread that   *)
(* owns the Motion.  Each statement of run() that another thread can       *)
(* observe is one action; the capabilities (prevent_sleep, the mouse, the  *)
(* Motion's update) are inputs chosen nondeterministically.                *)
(*                                                                         *)
(* Assumptions: ctrlc::set_handler succeeds (run() is called once per      *)
(* process by main); println! on the main thread succeeds; a panic unwinds *)
(* (the default profile), so the thread closure's locals are dropped.      *)
(***************************************************************************)
EXTENDS Integers, Sequences, FiniteSets, TLC

VARIABLES
    \* ---- BusyCrab fields and the build profile
    motionArg,        \* the key passed to with_motion (a sequence of characters)
    motion,           \* Option<Box<dyn Motion>>: "None", "Crab" or "Matrix"
    verbose,          \* bool
    interval,         \* Duration, in milliseconds
    wiggle_distance,  \* i32
    overflowChecks,   \* TRUE: debug profile (overflow panics); FALSE: release (wraps)
    platform,         \* the Platform behind prevent_sleep: "Mock" (any result) or "Linux"
    \* ---- main thread
    mainPc,           \* position of the main thread
    handlerSet,       \* the Ctrl+C handler is registered
    keepRunning,      \* Arc<AtomicBool> `running` of setup_shutdown_signal
    activity_count,   \* u64 local of run_activity_loop
    remaining,        \* Duration local of wait_for_next_cycle, in milliseconds
    cycleResult,      \* result of the last execute_activity_cycle: "none", "Ok" or an error
    runResult,        \* result of run(): "none", "Ok" or an error
    \* ---- capabilities, as seen from outside
    sleepCalls,       \* number of prevent_sleep calls
    sleepOk,          \* prevent_sleep calls that returned Ok
    lastSleep,        \* result of the last prevent_sleep call
    moves,            \* sequence of mouse_move_relative arguments <<x, y>>
    \* ---- animation thread
    animPc,           \* position of the animation thread
    animFlag,         \* the Mutex<bool> shared with the animation thread
    lockHolder,       \* who holds the Mutex: "none", "main" or "anim"
    poisoned,         \* the Mutex is poisoned
    first_update,     \* the Motion's first_update field
    joinResult,       \* result of handle.join(): "none", "Ok" or "Err"
    threadMotion,     \* the Motion owned by the thread closure: "None", a variant, or "Dropped"
    \* ---- terminal output
    updateCalls,      \* number of update() calls begun
    hideCount,        \* cursor-hide sequences emitted
    showCount,        \* cursor-show sequences emitted (Drop of the Motion)
    msgPrinted,       \* the "shut down successfully" message was printed
    joinErrReported,  \* "Animation thread did not exit cleanly" was printed
    \* ---- process
    procState,        \* "running" or "exited"
    exitCode,
    \* ---- history of the stop request
    stopPc,           \* mainPc when the keep-running flag was cleared ("none" before)
    slicesAfterStop,  \* sleep slices of wait_for_next_cycle begun after the flag was cleared
    lastSlice,        \* length of the last sleep slice, in milliseconds
    sleepCallsAfterStop, \* prevent_sleep calls made after the flag was cleared
    movesAfterStop,   \* mouse moves made after the flag was cleared
    updatesAfterFlag, \* update() calls begun after the stop-flag was set to false
    \* ---- history of the current wait_for_next_cycle call
    waitSlices,       \* sleep slices of this call
    waitSlept,        \* milliseconds slept by this call
    \* ---- the renderers, examined on their own
    kind,             \* which renderer is examined: "None", "Crab", "Matrix", "Mandelbrot", "Clock"
    term,             \* what term_size::dimensions() returns now: NoTerm or SomeTerm(w, h)
    now,              \* what Local::now() returns now: << hour, minute, second >>
    crab,             \* the CrabMotion
    matrix,           \* the MatrixMotion
    mandel,           \* the MandelbrotMotion
    clock,            \* the ClockMotion
    iter,             \* the locals of one mandelbrot_iterations call
    cell,             \* one cell of a FractalZoom frame: its count and what is printed for it
    cursor,           \* cursor-hide and cursor-show sequences the renderer has emitted
    \* ---- the macOS platform, examined on its own
    mac               \* the macOS Platform and the assertions the system holds for it

vars == << motionArg, motion, verbose, interval, wiggle_distance, overflowChecks, platform,
           mainPc, handlerSet, keepRunning, activity_count, remaining, cycleResult,
           runResult, sleepCalls, lastSleep, sleepOk, moves, animPc, animFlag, lockHolder,
           poisoned, first_update, joinResult, threadMotion, updateCalls, hideCount, showCount,
           msgPrinted, joinErrReported, procState, exitCode, stopPc, slicesAfterStop,
           lastSlice, sleepCallsAfterStop, movesAfterStop, updatesAfterFlag,
           waitSlices, waitSlept,
           kind, term, now, crab, matrix, mandel, clock, iter, cell, cursor, mac >>

configVars == << motionArg, motion, verbose, interval, wiggle_distance, overflowChecks, platform >>
mainVars   == << mainPc, handlerSet, keepRunning, activity_count, remaining, cycleResult, runResult >>
capVars    == << sleepCalls, lastSleep, sleepOk, moves >>
animVars   == << animPc, animFlag, lockHolder, poisoned, first_update, joinResult, threadMotion >>
outVars    == << updateCalls, hideCount, showCount, msgPrinted, joinErrReported >>
procVars   == << procState, exitCode >>
stopVars   == << stopPc, slicesAfterStop, lastSlice, sleepCallsAfterStop,
                 movesAfterStop, updatesAfterFlag >>
waitVars   == << waitSlices, waitSlept >>
renderVars == << kind, term, now, crab, matrix, mandel, clock, iter, cell, cursor >>
macVars    == << mac >>
runVars    == << configVars, mainVars, capVars, animVars, outVars, procVars, stopVars, waitVars, macVars >>

---------------------------------------------------------------------------
\* Bounds of the model

MaxCycles == 2          \* activity cycles begun while the keep-running flag stays true
MaxUpdates == 2         \* frames begun while the animation stop-flag stays true
MaxIntervalSecs == 1    \* the interval argument ranges over 0..MaxIntervalSecs seconds
GhostCap == 3           \* the history counters saturate here

\* Program constants
MinI32 == -2147483647 - 1
StepSleepMs == 200
SecMs == 1000

Errors == {"E1", "E2"}
\* the error of the Linux placeholder: "Sleep prevention not implemented for this OS. .."
NotImplemented == "E1"
Platforms == {"Mock", "Linux"}

\* variant: the Linux platform can succeed like any other
PlatformResultsAlike(p) == {"Ok"} \cup Errors

\* what PlatformTrait::prevent_sleep can return on the platform p
PlatformResults(p) == IF p = "Linux" THEN {NotImplemented} ELSE {"Ok"} \cup Errors
Wiggles == {MinI32, -3, 0, 3}

Bump(n) == IF n < GhostCap THEN n + 1 ELSE n

---------------------------------------------------------------------------
\* Strings are sequences of one-character strings.

UpperLetters == << "A","B","C","D","E","F","G","H","I","J","K","L","M",
                   "N","O","P","Q","R","S","T","U","V","W","X","Y","Z" >>
LowerLetters == << "a","b","c","d","e","f","g","h","i","j","k","l","m",
                   "n","o","p","q","r","s","t","u","v","w","x","y","z" >>

IndexOf(c, letters) == CHOOSE i \in 1..Len(letters) : letters[i] = c
IsUpper(c) == \E i \in 1..Len(UpperLetters) : UpperLetters[i] = c
IsLower(c) == \E i \in 1..Len(LowerLetters) : LowerLetters[i] = c

LowerChar(c) == IF IsUpper(c) THEN LowerLetters[IndexOf(c, UpperLetters)] ELSE c
UpperChar(c) == IF IsLower(c) THEN UpperLetters[IndexOf(c, LowerLetters)] ELSE c

\* variant: the key is matched as written
NoLowercase(s) == s
\* str::to_lowercase
to_lowercase(s) == [i \in 1..Len(s) |-> LowerChar(s[i])]

K_crab == << "c","r","a","b" >>
K_matrix == << "m","a","t","r","i","x" >>
K_none == << "n","o","n","e" >>
K_mandelbrot == << "m","a","n","d","e","l","b","r","o","t" >>
K_clock == << "c","l","o","c","k" >>
K_invalid == << "i","n","v","a","l","i","d" >>

\* the match of with_motion
SelectMotion(motion_type) ==
    LET k == to_lowercase(motion_type) IN
    IF k = K_crab THEN "Crab"
    ELSE IF k = K_matrix THEN "Matrix"
    ELSE "None"

has_motion == motion # "None"

\* every way of writing the word w in upper and lower case
CaseVariants(w) ==
    { [i \in 1..Len(w) |-> IF i \in S THEN UpperChar(w[i]) ELSE w[i]] : S \in SUBSET (1..Len(w)) }

\* keys given to with_motion where run() follows
RunKeys == { K_crab, << "M","a","t","r","i","x" >>, K_none, K_invalid }

\* keys given to with_motion where only the selection is examined
SelectionKeys ==
    CaseVariants(K_crab) \cup CaseVariants(K_matrix) \cup CaseVariants(K_none)
      \cup CaseVariants(K_clock) \cup CaseVariants(K_invalid)
      \cup { K_mandelbrot, << >>, << "c","r","a","b","s" >>, << "c","r","4","b" >>,
             << "c","r","a","b"," " >>, << " ","m","a","t","r","i","x" >>, << "c","r","a" >> }

---------------------------------------------------------------------------
\* 32-bit arithmetic

NegOverflows(w) == w = MinI32
\* `-w` in a build without overflow checks
WrappingNeg(w) == IF w = MinI32 THEN MinI32 ELSE -w

---------------------------------------------------------------------------
\* Initial state: BusyCrab::new(interval_secs, wiggle_distance)

InitFields ==
    /\ motion = "None"
    /\ verbose = FALSE
    /\ interval \in { s * SecMs : s \in 0..MaxIntervalSecs }
    /\ wiggle_distance \in Wiggles
    /\ overflowChecks \in BOOLEAN
    /\ platform \in Platforms
    /\ handlerSet = FALSE
    /\ keepRunning = TRUE
    /\ activity_count = 0
    /\ remaining = 0
    /\ cycleResult = "none"
    /\ runResult = "none"
    /\ sleepCalls = 0
    /\ sleepOk = 0
    /\ lastSleep = "none"
    /\ moves = << >>
    /\ animPc = "unspawned"
    /\ animFlag = TRUE
    /\ lockHolder = "none"
    /\ poisoned = FALSE
    /\ first_update = TRUE
    /\ joinResult = "none"
    /\ threadMotion = "None"
    /\ updateCalls = 0
    /\ hideCount = 0
    /\ showCount = 0
    /\ msgPrinted = FALSE
    /\ joinErrReported = FALSE
    /\ procState = "running"
    /\ exitCode = 0
    /\ stopPc = "none"
    /\ slicesAfterStop = 0
    /\ lastSlice = 0
    /\ sleepCallsAfterStop = 0
    /\ movesAfterStop = 0
    /\ updatesAfterFlag = 0
    /\ waitSlices = 0
    /\ waitSlept = 0

\* Option<(usize, usize)>, the result of term_size::dimensions()
NoTerm == [ some |-> FALSE, w |-> 0, h |-> 0 ]
SomeTerm(w, h) == [ some |-> TRUE, w |-> w, h |-> h ]

\* no renderer is examined on its own
\* no escape sequence emitted yet, the renderer alive
CursorNew == [ hides |-> 0, shows |-> 0, dropped |-> FALSE ]

\* variant: the cursor is hidden on every update
HideAlways(cur, first) == [ cur EXCEPT !.hides = Bump(@) ]

\* `if self.first_update { .. print!("\x1B[?25l") }` of update()
HideOnFirst(cur, first) ==
    IF first THEN [ cur EXCEPT !.hides = @ + 1 ] ELSE cur

NoRender ==
    /\ kind = "None"
    /\ term = NoTerm
    /\ now = << 0, 0, 0 >>
    /\ crab = "None"
    /\ matrix = "None"
    /\ mandel = "None"
    /\ clock = "None"
    /\ iter = "None"
    /\ cell = "None"
    /\ cursor = CursorNew

Init ==
    /\ InitFields
    /\ NoRender
    /\ mac = "None"
    /\ motionArg \in RunKeys
    /\ mainPc = "new"

Running == procState = "running"
animation_thread_is_some == animPc # "unspawned"
AnimAlive == animPc \in {"lock", "read", "update", "sleep", "exit"}
AnimFinished == animPc \in {"done", "panicked"}

---------------------------------------------------------------------------
\* Builder calls of main

with_verbose ==
    /\ Running /\ mainPc = "new"
    /\ \E v \in BOOLEAN : verbose' = v
    /\ mainPc' = "with_motion"
    /\ UNCHANGED << motionArg, motion, interval, wiggle_distance, overflowChecks, platform >>
    /\ UNCHANGED << handlerSet, keepRunning, activity_count, remaining, cycleResult, runResult >>
    /\ UNCHANGED << capVars, animVars, outVars, procVars, stopVars >>
    /\ UNCHANGED waitVars
    /\ UNCHANGED << renderVars, macVars >>

with_motion ==
    /\ Running /\ mainPc = "with_motion"
    /\ motion' = SelectMotion(motionArg)
    /\ mainPc' = "run"
    /\ UNCHANGED << motionArg, verbose, interval, wiggle_distance, overflowChecks, platform >>
    /\ UNCHANGED << handlerSet, keepRunning, activity_count, remaining, cycleResult, runResult >>
    /\ UNCHANGED << capVars, animVars, outVars, procVars, stopVars >>
    /\ UNCHANGED waitVars
    /\ UNCHANGED << renderVars, macVars >>

---------------------------------------------------------------------------
\* BusyCrab::run on the main thread

\* variant: the thread gets a copy and BusyCrab keeps its Motion
start_animation_thread_keep ==
    /\ Running /\ mainPc = "run"
    /\ IF motion # "None"
         THEN /\ threadMotion' = motion
              /\ animFlag' = TRUE
              /\ animPc' = "lock"
              /\ UNCHANGED motion
         ELSE UNCHANGED << motion, threadMotion, animFlag, animPc >>
    /\ mainPc' = "setup_signal"
    /\ UNCHANGED << motionArg, verbose, interval, wiggle_distance, overflowChecks, platform >>
    /\ UNCHANGED << handlerSet, keepRunning, activity_count, remaining, cycleResult, runResult >>
    /\ UNCHANGED << lockHolder, poisoned, first_update, joinResult >>
    /\ UNCHANGED << capVars, outVars, procVars, stopVars >>
    /\ UNCHANGED waitVars
    /\ UNCHANGED << renderVars, macVars >>

\* display_startup_info, then start_animation_thread
start_animation_thread ==
    /\ Running /\ mainPc = "run"
    /\ IF motion # "None"
         THEN /\ motion' = "None"
              /\ threadMotion' = motion
              /\ animFlag' = TRUE
              /\ animPc' = "lock"
         ELSE UNCHANGED << motion, threadMotion, animFlag, animPc >>
    /\ mainPc' = "setup_signal"
    /\ UNCHANGED << motionArg, verbose, interval, wiggle_distance, overflowChecks, platform >>
    /\ UNCHANGED << handlerSet, keepRunning, activity_count, remaining, cycleResult, runResult >>
    /\ UNCHANGED << lockHolder, poisoned, first_update, joinResult >>
    /\ UNCHANGED << capVars, outVars, procVars, stopVars >>
    /\ UNCHANGED waitVars
    /\ UNCHANGED << renderVars, macVars >>

\* setup_shutdown_signal, then entry of run_activity_loop
setup_shutdown_signal ==
    /\ Running /\ mainPc = "setup_signal"
    /\ keepRunning' = TRUE
    /\ handlerSet' = TRUE
    /\ activity_count' = 0
    /\ mainPc' = "loop_check"
    /\ UNCHANGED << remaining, cycleResult, runResult >>
    /\ UNCHANGED << configVars, capVars, animVars, outVars, procVars, stopVars >>
    /\ UNCHANGED waitVars
    /\ UNCHANGED << renderVars, macVars >>

\* the Ctrl+C handler
ctrlc_handler ==
    /\ Running /\ handlerSet /\ keepRunning
    /\ keepRunning' = FALSE
    /\ stopPc' = mainPc
    /\ UNCHANGED << mainPc, handlerSet, activity_count, remaining, cycleResult, runResult >>
    /\ UNCHANGED << slicesAfterStop, lastSlice, sleepCallsAfterStop, movesAfterStop, updatesAfterFlag >>
    /\ UNCHANGED << configVars, capVars, animVars, outVars, procVars >>
    /\ UNCHANGED waitVars
    /\ UNCHANGED << renderVars, macVars >>

\* variant: run() goes from the loop straight to the shutdown message
SkipCleanup == "msg"
\* the statement of run() that follows run_activity_loop(..)?
AfterActivityLoop == "cleanup"

\* variant: the loop starts a cycle without reading the flag
run_activity_loop_unconditional ==
    /\ Running /\ mainPc = "loop_check"
    /\ activity_count < MaxCycles \/ ~keepRunning
    /\ mainPc' = "prevent_sleep"
    /\ UNCHANGED << handlerSet, keepRunning, activity_count, remaining, cycleResult, runResult >>
    /\ UNCHANGED << configVars, capVars, animVars, outVars, procVars, stopVars >>
    /\ UNCHANGED waitVars
    /\ UNCHANGED << renderVars, macVars >>

\* `while running.load(..)` of run_activity_loop
run_activity_loop ==
    /\ Running /\ mainPc = "loop_check"
    /\ activity_count < MaxCycles \/ ~keepRunning
    /\ mainPc' = IF keepRunning THEN "prevent_sleep" ELSE AfterActivityLoop
    /\ UNCHANGED << handlerSet, keepRunning, activity_count, remaining, cycleResult, runResult >>
    /\ UNCHANGED << configVars, capVars, animVars, outVars, procVars, stopVars >>
    /\ UNCHANGED waitVars
    /\ UNCHANGED << renderVars, macVars >>

\* variant: the result of prevent_sleep is ignored
prevent_sleep_swallow ==
    /\ Running /\ mainPc = "prevent_sleep"
    /\ \E r \in PlatformResults(platform) :
          /\ lastSleep' = r
          /\ mainPc' = "move1"
          /\ UNCHANGED cycleResult
    /\ sleepCalls' = sleepCalls + 1
    /\ sleepOk' = IF lastSleep' = "Ok" THEN sleepOk + 1 ELSE sleepOk
    /\ sleepCallsAfterStop' = IF keepRunning THEN sleepCallsAfterStop ELSE Bump(sleepCallsAfterStop)
    /\ UNCHANGED << handlerSet, keepRunning, activity_count, remaining, runResult >>
    /\ UNCHANGED << moves, stopPc, slicesAfterStop, lastSlice, movesAfterStop, updatesAfterFlag >>
    /\ UNCHANGED << configVars, animVars, outVars, procVars >>
    /\ UNCHANGED waitVars
    /\ UNCHANGED << renderVars, macVars >>

\* execute_activity_cycle: self.platform.prevent_sleep()?
prevent_sleep ==
    /\ Running /\ mainPc = "prevent_sleep"
    /\ \E r \in PlatformResults(platform) :
          /\ lastSleep' = r
          /\ IF r = "Ok"
               THEN mainPc' = "move1" /\ UNCHANGED cycleResult
               ELSE mainPc' = "cycle_ret" /\ cycleResult' = r
    /\ sleepCalls' = sleepCalls + 1
    /\ sleepOk' = IF lastSleep' = "Ok" THEN sleepOk + 1 ELSE sleepOk
    /\ sleepCallsAfterStop' = IF keepRunning THEN sleepCallsAfterStop ELSE Bump(sleepCallsAfterStop)
    /\ UNCHANGED << handlerSet, keepRunning, activity_count, remaining, runResult >>
    /\ UNCHANGED << moves, stopPc, slicesAfterStop, lastSlice, movesAfterStop, updatesAfterFlag >>
    /\ UNCHANGED << configVars, animVars, outVars, procVars >>
    /\ UNCHANGED waitVars
    /\ UNCHANGED << renderVars, macVars >>

\* simulate_activity: mouse_move_relative(self.wiggle_distance, 0)
simulate_activity_first ==
    /\ Running /\ mainPc = "move1"
    /\ moves' = Append(moves, << wiggle_distance, 0 >>)
    /\ movesAfterStop' = IF keepRunning THEN movesAfterStop ELSE Bump(movesAfterStop)
    /\ mainPc' = "move2"
    /\ UNCHANGED << handlerSet, keepRunning, activity_count, remaining, cycleResult, runResult >>
    /\ UNCHANGED << sleepCalls, lastSleep, sleepOk >>
    /\ UNCHANGED << stopPc, slicesAfterStop, lastSlice, sleepCallsAfterStop, updatesAfterFlag >>
    /\ UNCHANGED << configVars, animVars, outVars, procVars >>
    /\ UNCHANGED waitVars
    /\ UNCHANGED << renderVars, macVars >>

\* simulate_activity: the 100 ms pause, then mouse_move_relative(-self.wiggle_distance, 0)
simulate_activity_second ==
    /\ Running /\ mainPc = "move2"
    /\ IF NegOverflows(wiggle_distance) /\ overflowChecks
         THEN mainPc' = "panicked" /\ UNCHANGED << moves, movesAfterStop >>
         ELSE /\ moves' = Append(moves, << WrappingNeg(wiggle_distance), 0 >>)
              /\ movesAfterStop' = IF keepRunning THEN movesAfterStop ELSE Bump(movesAfterStop)
              /\ mainPc' = "count"
    /\ UNCHANGED << handlerSet, keepRunning, activity_count, remaining, cycleResult, runResult >>
    /\ UNCHANGED << sleepCalls, lastSleep, sleepOk >>
    /\ UNCHANGED << stopPc, slicesAfterStop, lastSlice, sleepCallsAfterStop, updatesAfterFlag >>
    /\ UNCHANGED << configVars, animVars, outVars, procVars >>
    /\ UNCHANGED waitVars
    /\ UNCHANGED << renderVars, macVars >>

\* variant: the cycle completes without counting
execute_activity_cycle_count_skip ==
    /\ Running /\ mainPc = "count"
    /\ sleepCalls < MaxCycles
    /\ activity_count' = activity_count
    /\ cycleResult' = "Ok"
    /\ mainPc' = "cycle_ret"
    /\ UNCHANGED << handlerSet, keepRunning, remaining, runResult >>
    /\ UNCHANGED << configVars, capVars, animVars, outVars, procVars, stopVars >>
    /\ UNCHANGED waitVars
    /\ UNCHANGED << renderVars, macVars >>

\* execute_activity_cycle: *activity_count += 1; log_activity_status; Ok(())
execute_activity_cycle_count ==
    /\ Running /\ mainPc = "count"
    /\ activity_count' = activity_count + 1
    /\ cycleResult' = "Ok"
    /\ mainPc' = "cycle_ret"
    /\ UNCHANGED << handlerSet, keepRunning, remaining, runResult >>
    /\ UNCHANGED << configVars, capVars, animVars, outVars, procVars, stopVars >>
    /\ UNCHANGED waitVars
    /\ UNCHANGED << renderVars, macVars >>

\* variant: the loop goes on to the next cycle after an Err
cycle_return_retry ==
    /\ Running /\ mainPc = "cycle_ret"
    /\ mainPc' = "wait_check"
    /\ remaining' = interval
    /\ waitSlices' = 0 /\ waitSlept' = 0
    /\ UNCHANGED << handlerSet, keepRunning, activity_count, cycleResult, runResult >>
    /\ UNCHANGED << configVars, capVars, animVars, outVars, procVars, stopVars >>
    /\ UNCHANGED << renderVars, macVars >>

\* the `?` on execute_activity_cycle in run_activity_loop and on run_activity_loop
\* in run; on Ok, entry of wait_for_next_cycle
cycle_return ==
    /\ Running /\ mainPc = "cycle_ret"
    /\ IF cycleResult = "Ok"
         THEN /\ mainPc' = "wait_check"
              /\ remaining' = interval
              /\ waitSlices' = 0 /\ waitSlept' = 0
              /\ UNCHANGED runResult
         ELSE /\ mainPc' = "run_err"
              /\ runResult' = cycleResult
              /\ UNCHANGED << remaining, waitVars >>
    /\ UNCHANGED << handlerSet, keepRunning, activity_count, cycleResult >>
    /\ UNCHANGED << configVars, capVars, animVars, outVars, procVars, stopVars >>
    /\ UNCHANGED << renderVars, macVars >>

\* variant: the while condition does not read the flag
wait_check_no_flag ==
    /\ Running /\ mainPc = "wait_check"
    /\ mainPc' = IF remaining > 0 THEN "wait_sleep" ELSE "wait_ret"
    /\ UNCHANGED << handlerSet, keepRunning, activity_count, remaining, cycleResult, runResult >>
    /\ UNCHANGED << configVars, capVars, animVars, outVars, procVars, stopVars >>
    /\ UNCHANGED waitVars
    /\ UNCHANGED << renderVars, macVars >>

\* wait_for_next_cycle: the while condition
wait_check ==
    /\ Running /\ mainPc = "wait_check"
    /\ mainPc' = IF remaining > 0 /\ keepRunning THEN "wait_sleep" ELSE "wait_ret"
    /\ UNCHANGED << handlerSet, keepRunning, activity_count, remaining, cycleResult, runResult >>
    /\ UNCHANGED << configVars, capVars, animVars, outVars, procVars, stopVars >>
    /\ UNCHANGED waitVars
    /\ UNCHANGED << renderVars, macVars >>

\* variant: the remaining time is slept in one piece
wait_sleep_whole ==
    /\ Running /\ mainPc = "wait_sleep"
    /\ LET sleep_time == remaining IN
          /\ lastSlice' = sleep_time
          /\ remaining' = IF remaining - sleep_time < 0 THEN 0 ELSE remaining - sleep_time
          /\ waitSlices' = waitSlices + 1
          /\ waitSlept' = waitSlept + sleep_time
    /\ slicesAfterStop' = IF keepRunning THEN slicesAfterStop ELSE Bump(slicesAfterStop)
    /\ mainPc' = "wait_check"
    /\ UNCHANGED << handlerSet, keepRunning, activity_count, cycleResult, runResult >>
    /\ UNCHANGED << stopPc, sleepCallsAfterStop, movesAfterStop, updatesAfterFlag >>
    /\ UNCHANGED << configVars, capVars, animVars, outVars, procVars >>
    /\ UNCHANGED << renderVars, macVars >>

\* wait_for_next_cycle: one sleep slice
wait_sleep ==
    /\ Running /\ mainPc = "wait_sleep"
    /\ LET sleep_time == IF remaining < StepSleepMs THEN remaining ELSE StepSleepMs IN
          /\ lastSlice' = sleep_time
          /\ remaining' = IF remaining - sleep_time < 0 THEN 0 ELSE remaining - sleep_time
          /\ waitSlices' = waitSlices + 1
          /\ waitSlept' = waitSlept + sleep_time
    /\ slicesAfterStop' = IF keepRunning THEN slicesAfterStop ELSE Bump(slicesAfterStop)
    /\ mainPc' = "wait_check"
    /\ UNCHANGED << handlerSet, keepRunning, activity_count, cycleResult, runResult >>
    /\ UNCHANGED << stopPc, sleepCallsAfterStop, movesAfterStop, updatesAfterFlag >>
    /\ UNCHANGED << configVars, capVars, animVars, outVars, procVars >>
    /\ UNCHANGED << renderVars, macVars >>

\* wait_for_next_cycle: the final running.load(..), and the `if !.. { break }`
wait_return ==
    /\ Running /\ mainPc = "wait_ret"
    /\ mainPc' = IF keepRunning THEN "loop_check" ELSE AfterActivityLoop
    /\ UNCHANGED << handlerSet, keepRunning, activity_count, remaining, cycleResult, runResult >>
    /\ UNCHANGED << configVars, capVars, animVars, outVars, procVars, stopVars >>
    /\ UNCHANGED waitVars
    /\ UNCHANGED << renderVars, macVars >>


---------------------------------------------------------------------------
\* cleanup_resources, display_shutdown_message and the return to main

\* cleanup_resources: `if let Some(..)`, then running_flag.lock()
cleanup_lock ==
    /\ Running /\ mainPc = "cleanup"
    /\ IF ~animation_thread_is_some
         THEN mainPc' = "msg" /\ UNCHANGED lockHolder
         ELSE /\ lockHolder = "none"
              /\ IF poisoned
                   THEN mainPc' = "join" /\ UNCHANGED lockHolder
                   ELSE mainPc' = "set_flag" /\ lockHolder' = "main"
    /\ UNCHANGED << handlerSet, keepRunning, activity_count, remaining, cycleResult, runResult >>
    /\ UNCHANGED << animPc, animFlag, poisoned, first_update, joinResult, threadMotion >>
    /\ UNCHANGED << configVars, capVars, outVars, procVars, stopVars >>
    /\ UNCHANGED waitVars
    /\ UNCHANGED << renderVars, macVars >>

\* cleanup_resources: *flag = false, and the guard is dropped
cleanup_set_flag ==
    /\ Running /\ mainPc = "set_flag"
    /\ animFlag' = FALSE
    /\ lockHolder' = "none"
    /\ mainPc' = "join"
    /\ UNCHANGED << handlerSet, keepRunning, activity_count, remaining, cycleResult, runResult >>
    /\ UNCHANGED << animPc, poisoned, first_update, joinResult, threadMotion >>
    /\ UNCHANGED << configVars, capVars, outVars, procVars, stopVars >>
    /\ UNCHANGED waitVars
    /\ UNCHANGED << renderVars, macVars >>

\* variant: the handle is dropped without waiting for the thread
cleanup_join_detach ==
    /\ Running /\ mainPc = "join"
    /\ joinResult' = "Ok"
    /\ mainPc' = "msg"
    /\ UNCHANGED << handlerSet, keepRunning, activity_count, remaining, cycleResult, runResult >>
    /\ UNCHANGED << animPc, animFlag, lockHolder, poisoned, first_update, threadMotion >>
    /\ UNCHANGED << configVars, capVars, outVars, procVars, stopVars >>
    /\ UNCHANGED waitVars
    /\ UNCHANGED << renderVars, macVars >>

\* variant: a join error is always reported and makes run() fail
cleanup_join_fatal ==
    /\ Running /\ mainPc = "join"
    /\ AnimFinished
    /\ joinResult' = IF animPc = "done" THEN "Ok" ELSE "Err"
    /\ joinErrReported' = (animPc = "panicked")
    /\ IF animPc = "panicked"
         THEN mainPc' = "run_err" /\ runResult' = "E1"
         ELSE mainPc' = "msg" /\ UNCHANGED runResult
    /\ UNCHANGED << handlerSet, keepRunning, activity_count, remaining, cycleResult >>
    /\ UNCHANGED << animPc, animFlag, lockHolder, poisoned, first_update, threadMotion >>
    /\ UNCHANGED << updateCalls, hideCount, showCount, msgPrinted >>
    /\ UNCHANGED << configVars, capVars, procVars, stopVars >>
    /\ UNCHANGED waitVars
    /\ UNCHANGED << renderVars, macVars >>

\* cleanup_resources: handle.join(), and the report of a join error
cleanup_join ==
    /\ Running /\ mainPc = "join"
    /\ AnimFinished
    /\ joinResult' = IF animPc = "done" THEN "Ok" ELSE "Err"
    /\ joinErrReported' = (animPc = "panicked" /\ verbose)
    /\ mainPc' = "msg"
    /\ UNCHANGED << handlerSet, keepRunning, activity_count, remaining, cycleResult, runResult >>
    /\ UNCHANGED << animPc, animFlag, lockHolder, poisoned, first_update, threadMotion >>
    /\ UNCHANGED << updateCalls, hideCount, showCount, msgPrinted >>
    /\ UNCHANGED << configVars, capVars, procVars, stopVars >>
    /\ UNCHANGED waitVars
    /\ UNCHANGED << renderVars, macVars >>

\* display_shutdown_message, then Ok(())
display_shutdown_message ==
    /\ Running /\ mainPc = "msg"
    /\ msgPrinted' = TRUE
    /\ runResult' = "Ok"
    /\ mainPc' = "run_ok"
    /\ UNCHANGED << handlerSet, keepRunning, activity_count, remaining, cycleResult >>
    /\ UNCHANGED << updateCalls, hideCount, showCount, joinErrReported >>
    /\ UNCHANGED << configVars, capVars, animVars, procVars, stopVars >>
    /\ UNCHANGED waitVars
    /\ UNCHANGED << renderVars, macVars >>

\* main: return after Ok, process::exit(1) after Err, exit status 101 after a
\* panic of the main thread; the process ends and a live thread ends with it,
\* its locals not dropped
main_exit ==
    /\ Running /\ mainPc \in {"run_ok", "run_err", "panicked"}
    /\ procState' = "exited"
    /\ exitCode' = IF mainPc = "run_ok" THEN 0 ELSE IF mainPc = "run_err" THEN 1 ELSE 101
    /\ animPc' = IF AnimAlive THEN "killed" ELSE animPc
    /\ mainPc' = "exited"
    /\ UNCHANGED << handlerSet, keepRunning, activity_count, remaining, cycleResult, runResult >>
    /\ UNCHANGED << animFlag, lockHolder, poisoned, first_update, joinResult, threadMotion >>
    /\ UNCHANGED << configVars, capVars, outVars, stopVars >>
    /\ UNCHANGED waitVars
    /\ UNCHANGED << renderVars, macVars >>

---------------------------------------------------------------------------
\* The animation thread: the closure of start_animation_thread

\* running_clone.lock().unwrap()
anim_lock ==
    /\ Running /\ animPc = "lock"
    /\ updateCalls < MaxUpdates \/ ~animFlag
    /\ lockHolder = "none"
    /\ IF poisoned
         THEN /\ animPc' = "panicked"
              /\ threadMotion' = "Dropped"
              /\ showCount' = showCount + 1
              /\ UNCHANGED lockHolder
         ELSE /\ animPc' = "read"
              /\ lockHolder' = "anim"
              /\ UNCHANGED << threadMotion, showCount >>
    /\ UNCHANGED << animFlag, poisoned, first_update, joinResult >>
    /\ UNCHANGED << updateCalls, hideCount, msgPrinted, joinErrReported >>
    /\ UNCHANGED << configVars, mainVars, capVars, procVars, stopVars >>
    /\ UNCHANGED waitVars
    /\ UNCHANGED << renderVars, macVars >>

\* variant: the flag is consulted before the first frame only
anim_read_once ==
    /\ Running /\ animPc = "read"
    /\ lockHolder' = "none"
    /\ animPc' = IF animFlag \/ updateCalls > 0 THEN "update" ELSE "exit"
    /\ UNCHANGED << animFlag, poisoned, first_update, joinResult, threadMotion >>
    /\ UNCHANGED << configVars, mainVars, capVars, outVars, procVars, stopVars >>
    /\ UNCHANGED waitVars
    /\ UNCHANGED << renderVars, macVars >>

\* variant: the guard lives as long as the loop body
anim_read_hold ==
    /\ Running /\ animPc = "read"
    /\ lockHolder' = IF animFlag THEN "anim" ELSE "none"
    /\ animPc' = IF animFlag THEN "update" ELSE "exit"
    /\ UNCHANGED << animFlag, poisoned, first_update, joinResult, threadMotion >>
    /\ UNCHANGED << configVars, mainVars, capVars, outVars, procVars, stopVars >>
    /\ UNCHANGED waitVars
    /\ UNCHANGED << renderVars, macVars >>

\* the read of the flag in the while condition; the guard is dropped with it
anim_read ==
    /\ Running /\ animPc = "read"
    /\ lockHolder' = "none"
    /\ animPc' = IF animFlag THEN "update" ELSE "exit"
    /\ UNCHANGED << animFlag, poisoned, first_update, joinResult, threadMotion >>
    /\ UNCHANGED << configVars, mainVars, capVars, outVars, procVars, stopVars >>
    /\ UNCHANGED waitVars
    /\ UNCHANGED << renderVars, macVars >>

\* motion.update(): it returns, or it panics (a failed write to stdout, an
\* index out of bounds) before or after the cursor-hide of the first update;
\* the unwinding drops the Motion
anim_update ==
    /\ Running /\ animPc = "update"
    /\ updateCalls' = updateCalls + 1
    /\ \E returns \in BOOLEAN, hidden \in BOOLEAN :
          /\ returns => hidden
          /\ IF first_update /\ hidden
               THEN first_update' = FALSE /\ hideCount' = hideCount + 1
               ELSE UNCHANGED << first_update, hideCount >>
          /\ IF returns
               THEN /\ animPc' = "sleep"
                    /\ UNCHANGED << threadMotion, showCount, poisoned >>
               ELSE /\ animPc' = "panicked"
                    /\ threadMotion' = "Dropped"
                    /\ showCount' = showCount + 1
                    /\ poisoned' = (poisoned \/ lockHolder = "anim")
    /\ updatesAfterFlag' = IF animFlag THEN updatesAfterFlag ELSE Bump(updatesAfterFlag)
    /\ UNCHANGED << animFlag, lockHolder, joinResult >>
    /\ UNCHANGED << msgPrinted, joinErrReported >>
    /\ UNCHANGED << stopPc, slicesAfterStop, lastSlice, sleepCallsAfterStop, movesAfterStop >>
    /\ UNCHANGED << configVars, mainVars, capVars, procVars >>
    /\ UNCHANGED waitVars
    /\ UNCHANGED << renderVars, macVars >>

\* thread::sleep(animation_interval)
anim_sleep ==
    /\ Running /\ animPc = "sleep"
    /\ animPc' = "lock"
    /\ UNCHANGED << animFlag, lockHolder, poisoned, first_update, joinResult, threadMotion >>
    /\ UNCHANGED << configVars, mainVars, capVars, outVars, procVars, stopVars >>
    /\ UNCHANGED waitVars
    /\ UNCHANGED << renderVars, macVars >>

\* variant: the closure sets the stop-flag back before it returns
anim_exit_rearm ==
    /\ Running /\ animPc = "exit"
    /\ animPc' = "done"
    /\ animFlag' = TRUE
    /\ threadMotion' = "Dropped"
    /\ showCount' = showCount + 1
    /\ UNCHANGED << lockHolder, poisoned, first_update, joinResult >>
    /\ UNCHANGED << updateCalls, hideCount, msgPrinted, joinErrReported >>
    /\ UNCHANGED << configVars, mainVars, capVars, procVars, stopVars >>
    /\ UNCHANGED waitVars
    /\ UNCHANGED << renderVars, macVars >>

\* the closure returns: the Motion is dropped (cursor-show)
anim_exit ==
    /\ Running /\ animPc = "exit"
    /\ animPc' = "done"
    /\ threadMotion' = "Dropped"
    /\ showCount' = showCount + 1
    /\ UNCHANGED << animFlag, lockHolder, poisoned, first_update, joinResult >>
    /\ UNCHANGED << updateCalls, hideCount, msgPrinted, joinErrReported >>
    /\ UNCHANGED << configVars, mainVars, capVars, procVars, stopVars >>
    /\ UNCHANGED waitVars
    /\ UNCHANGED << renderVars, macVars >>

---------------------------------------------------------------------------

Next ==
    \/ with_verbose
    \/ with_motion
    \/ start_animation_thread
    \/ setup_shutdown_signal
    \/ ctrlc_handler
    \/ run_activity_loop
    \/ prevent_sleep
    \/ simulate_activity_first
    \/ simulate_activity_second
    \/ execute_activity_cycle_count
    \/ cycle_return
    \/ wait_check
    \/ wait_sleep
    \/ wait_return
    \/ cleanup_lock
    \/ cleanup_set_flag
    \/ cleanup_join
    \/ display_shutdown_message
    \/ main_exit
    \/ anim_lock
    \/ anim_read
    \/ anim_update
    \/ anim_sleep
    \/ anim_exit

Spec == Init /\ [][Next]_vars

\* the steps of the main thread and those of the animation thread
MainNext ==
    \/ with_verbose
    \/ with_motion
    \/ start_animation_thread
    \/ setup_shutdown_signal
    \/ run_activity_loop
    \/ prevent_sleep
    \/ simulate_activity_first
    \/ simulate_activity_second
    \/ execute_activity_cycle_count
    \/ cycle_return
    \/ wait_check
    \/ wait_sleep
    \/ wait_return
    \/ cleanup_lock
    \/ cleanup_set_flag
    \/ cleanup_join
    \/ display_shutdown_message
    \/ main_exit

AnimNext ==
    \/ anim_lock
    \/ anim_read
    \/ anim_update
    \/ anim_sleep
    \/ anim_exit

\* both threads are scheduled fairly; Ctrl+C may or may not come
SpecFair == Spec /\ WF_vars(MainNext) /\ WF_vars(AnimNext)

\* The selection of the Motion alone, over every letter case of the keys
InitSelection ==
    /\ InitFields
    /\ NoRender
    /\ mac = "None"
    /\ motionArg \in SelectionKeys
    /\ mainPc = "with_motion"

NextSelection == with_motion

SpecSelection == InitSelection /\ [][NextSelection]_vars

---------------------------------------------------------------------------
\* Properties

Joined == joinResult # "none"
MotionDropped == threadMotion = "Dropped"
RunReturned == mainPc \in {"run_ok", "run_err", "exited"} /\ runResult # "none"
WaitPcs == {"wait_check", "wait_sleep", "wait_ret"}
CyclePcs == {"prevent_sleep", "move1", "move2", "count", "cycle_ret"}

\* C1: once the stop-flag has been set to false and join() has returned, the
\* Motion has been dropped and its cursor-show emitted, and no further update()
\* call is made.
C1_SchedulerShutdown ==
    /\ [](Joined /\ ~animFlag => MotionDropped /\ showCount = 1 /\ AnimFinished)
    /\ [][Joined /\ ~animFlag => updateCalls' = updateCalls]_vars

C1_Witness ==
    Joined /\ ~animFlag /\ updateCalls = 2 /\ hideCount = 1 /\ showCount = 1 /\ mainPc = "msg"

\* C2: when the shutdown message has been printed, the stop-flag had been set to
\* false and the animation thread joined; after the message no frame is rendered
\* and no cursor-show is emitted.
C2_ShutdownOrdering ==
    /\ [](msgPrinted /\ animation_thread_is_some => ~animFlag /\ Joined /\ AnimFinished)
    /\ [][msgPrinted => updateCalls' = updateCalls /\ showCount' = showCount]_vars

C2_Witness ==
    msgPrinted /\ animation_thread_is_some /\ updateCalls > 0 /\ showCount = 1 /\ procState = "exited"

\* C3: on every exit path, once cursor-hide has been emitted, cursor-show is
\* emitted before the process terminates.
C3_TerminalRestored ==
    procState = "exited" /\ hideCount > 0 => showCount > 0

\* C4: whenever run() has returned, after an exit of the Activity Loop by the
\* flag or by an error, the stop-flag is false and the animation thread joined.
C4_CleanupOnEveryLoopExit ==
    RunReturned /\ animation_thread_is_some => ~animFlag /\ Joined

\* C5: when prevent_sleep has returned Err(e), execute_activity_cycle returns
\* Err(e), the activity counter is not incremented (it counts the calls that
\* returned Ok), no mouse call is made for the cycle, and the loop has stopped.
C5_ErrorPropagation ==
    lastSleep \in Errors =>
        /\ cycleResult = lastSleep
        /\ activity_count = sleepCalls - 1
        /\ Len(moves) = 2 * activity_count
        /\ mainPc \in {"cycle_ret", "run_err", "exited"}

C5_Witness ==
    lastSleep = "E2" /\ cycleResult = "E2" /\ activity_count = 1 /\ Len(moves) = 2
      /\ mainPc = "cycle_ret"

NoCallAfterError ==
    lastSleep \in Errors => sleepCalls' = sleepCalls /\ moves' = moves /\ lastSleep' = lastSleep

\* C6: after an error of prevent_sleep there is no further prevent_sleep call and
\* no mouse call, run() returns that error, and the shutdown message is never
\* printed.
C6_NoRetry ==
    /\ [][NoCallAfterError]_vars
    /\ [](lastSleep \in Errors => ~msgPrinted)
    /\ [](lastSleep \in Errors /\ mainPc \in {"run_err", "exited"} => runResult = lastSleep)

C6_Witness ==
    lastSleep = "E1" /\ runResult = "E1" /\ sleepCalls = 2 /\ mainPc = "exited" /\ exitCode = 1

NegAbs(v) == IF v > 0 THEN -v ELSE v
\* x = -w, evaluated inside the 32-bit range
IsNegation(x, w) == ((x < 0) = (w > 0)) /\ ((x > 0) = (w < 0)) /\ NegAbs(x) = NegAbs(w)

\* C7: a successful activity cycle makes one prevent_sleep call, then two mouse
\* calls, (wiggle, 0) and then (-wiggle, 0), and adds 1 to the activity counter.
C7_CycleSuccess ==
    /\ mainPc = "move1" =>
          lastSleep = "Ok" /\ sleepCalls = activity_count + 1 /\ Len(moves) = 2 * activity_count
    /\ mainPc = "cycle_ret" /\ cycleResult = "Ok" =>
          LET n == Len(moves) IN
            /\ sleepCalls = activity_count
            /\ n = 2 * activity_count
            /\ n >= 2
            /\ moves[n - 1] = << wiggle_distance, 0 >>
            /\ moves[n][2] = 0
            /\ IsNegation(moves[n][1], wiggle_distance)

\* C8: when the keep-running flag is cleared during wait_for_next_cycle, at most
\* one further slice is slept, of at most 200 ms, and no further activity cycle
\* is executed.
C8_ResponsiveStop ==
    stopPc \in WaitPcs =>
        /\ slicesAfterStop <= 1
        /\ (slicesAfterStop = 1 => lastSlice <= StepSleepMs)
        /\ sleepCallsAfterStop = 0
        /\ mainPc \notin CyclePcs \cup {"loop_check"}

C8_Witness ==
    stopPc = "wait_sleep" /\ slicesAfterStop = 1 /\ remaining = 3 * StepSleepMs
      /\ mainPc = "exited" /\ runResult = "Ok"

\* C9: when join() has returned an error (update() panicked), the Motion was
\* dropped, the error is reported exactly in verbose mode, and run() goes on to
\* print the shutdown message and to return Ok.
C9_JoinFailureNonFatal ==
    joinResult = "Err" =>
        /\ MotionDropped /\ showCount = 1
        /\ joinErrReported = verbose
        /\ mainPc \in {"msg", "run_ok", "exited"}
        /\ mainPc \in {"run_ok", "exited"} => msgPrinted /\ runResult = "Ok"
        /\ mainPc = "exited" => exitCode = 0

C9_Witness ==
    joinResult = "Err" /\ ~verbose /\ ~joinErrReported /\ msgPrinted /\ runResult = "Ok"
      /\ mainPc = "exited"

EqIgnoreCase(a, b) ==
    Len(a) = Len(b) /\ \A i \in 1..Len(a) : UpperChar(a[i]) = UpperChar(b[i])

C11_AllVariantsSelectable ==
    mainPc = "run" =>
        /\ EqIgnoreCase(motionArg, K_crab) => motion = "Crab"
        /\ EqIgnoreCase(motionArg, K_matrix) => motion = "Matrix"
        /\ EqIgnoreCase(motionArg, K_mandelbrot) => motion = "Mandelbrot"
        /\ EqIgnoreCase(motionArg, K_clock) => motion = "Clock"


---------------------------------------------------------------------------
\* The renderers on their own: a Motion is constructed and update() is called
\* again and again, while the terminal size reported by term_size::dimensions()
\* changes between the calls.

CrabMargin == 5
CrabDefaultWidth == 75
GridMargin == 2
DefaultWidth == 78
DefaultHeight == 20

saturating_sub(a, b) == IF a > b THEN a - b ELSE 0

\* the answers of term_size::dimensions() that are tried for each renderer
TermQueries(k) ==
    {NoTerm} \cup
    CASE k = "Crab"   -> { SomeTerm(w, 24) : w \in {0, 5, 6, 7, 8, 9} }
      [] k = "Matrix" -> { SomeTerm(w, h) : w \in {1, 3, 4}, h \in {0, 1, 2} }
      [] OTHER        -> { SomeTerm(w, h) : w \in {0, 80}, h \in {0, 24} }

\* the run of the application stands still
IdleRun ==
    /\ InitFields
    /\ interval = 0 /\ wiggle_distance = 0 /\ overflowChecks = FALSE /\ platform = "Mock"
    /\ motionArg = << >>
    /\ mainPc = "idle"

\* the terminal is resized (or attached, or detached) between two frames
term_resize ==
    /\ kind # "None"
    /\ \E q \in TermQueries(kind) : q # term /\ term' = q
    /\ UNCHANGED << kind, now, crab, matrix, mandel, clock, iter, cell, cursor >>
    /\ UNCHANGED runVars

---------------------------------------------------------------------------
\* Bounce: motion/crab.rs

\* CrabMotion::new under the terminal size q; `seen` is the answer the last
\* size query got and `prev_position` the position before the last update
CrabNew(q) ==
    [ position |-> 0,
      prev_position |-> 0,
      direction |-> 1,
      terminal_width |-> IF ~q.some THEN CrabDefaultWidth ELSE saturating_sub(q.w, CrabMargin),
      first_update |-> TRUE,
      seen |-> q ]

\* variant: the position is not clamped when the step passes the right bound
CrabStepNoClamp(c, q) ==
    LET tw == IF ~q.some THEN c.terminal_width ELSE saturating_sub(q.w, CrabMargin)
        new_position == c.position + c.direction
    IN  [ c EXCEPT
            !.terminal_width = tw,
            !.position = IF new_position <= 0 THEN 0 ELSE new_position,
            !.direction = IF new_position <= 0 THEN 1
                          ELSE IF new_position >= tw THEN -1 ELSE c.direction,
            !.first_update = FALSE,
            !.prev_position = c.position,
            !.seen = q ]

\* variant: the direction is kept at the left bound
CrabStepNoTurn(c, q) ==
    LET tw == IF ~q.some THEN c.terminal_width ELSE saturating_sub(q.w, CrabMargin)
        new_position == c.position + c.direction
    IN  [ c EXCEPT
            !.terminal_width = tw,
            !.position = IF new_position <= 0 THEN 0
                         ELSE IF new_position >= tw THEN tw ELSE new_position,
            !.direction = IF new_position <= 0 THEN c.direction
                          ELSE IF new_position >= tw THEN -1 ELSE c.direction,
            !.first_update = FALSE,
            !.prev_position = c.position,
            !.seen = q ]

\* variant: the position is not clamped when the step passes the left bound
CrabStepNoFloor(c, q) ==
    LET tw == IF ~q.some THEN c.terminal_width ELSE saturating_sub(q.w, CrabMargin)
        new_position == c.position + c.direction
    IN  [ c EXCEPT
            !.terminal_width = tw,
            !.position = IF new_position <= 0 THEN new_position
                         ELSE IF new_position >= tw THEN tw ELSE new_position,
            !.direction = IF new_position <= 0 THEN 1
                          ELSE IF new_position >= tw THEN -1 ELSE c.direction,
            !.first_update = FALSE,
            !.prev_position = c.position,
            !.seen = q ]

\* CrabMotion::update under the terminal size q: the new state of the Motion
CrabStep(c, q) ==
    LET tw == IF ~q.some THEN c.terminal_width ELSE saturating_sub(q.w, CrabMargin)
        new_position == c.position + c.direction
    IN  [ c EXCEPT
            !.terminal_width = tw,
            !.position = IF new_position <= 0 THEN 0
                         ELSE IF new_position >= tw THEN tw ELSE new_position,
            !.direction = IF new_position <= 0 THEN 1
                          ELSE IF new_position >= tw THEN -1 ELSE c.direction,
            !.first_update = FALSE,
            !.prev_position = c.position,
            !.seen = q ]

\* one call of CrabMotion::update
crab_update ==
    /\ kind = "Crab"
    /\ crab' = CrabStep(crab, term)
    /\ ~cursor.dropped
    /\ cursor' = HideOnFirst(cursor, crab.first_update)
    /\ UNCHANGED << kind, term, now, matrix, mandel, clock, iter, cell >>
    /\ UNCHANGED runVars


---------------------------------------------------------------------------
\* Rain: motion/matrix.rs.  Drop positions are whole numbers throughout (they
\* start at -(n as f32), are padded with -1.0 and grow by 1.0), so they are
\* integers here.  frame_count is only ever written and is left out.

TailLength == 8
ResetMargin == 10
ResizeFill == -1
Blank == " "
\* two of the symbols of MatrixMotion::symbols
Symbols == {"0", "K"}
\* grids of at most this many columns get every outcome of the random source
SmallCols == 1

\* Vec::resize
resize(v, n, fill) == [ i \in 1..n |-> IF i <= Len(v) THEN v[i] ELSE fill ]

\* what the random source yields in one frame: for each column whether its
\* random_bool(0.025) call in update_drops is true and the value of its
\* random_range(0..rows) call, whether the random_bool(0.1) and
\* random_bool(0.05) calls of update_grid are true, and the symbol that
\* get_random_symbol returns.  Wide grids follow one outcome.
RandomOutcomes(columns, rows) ==
    IF columns <= SmallCols
    THEN [ reset : [1..columns -> BOOLEAN],
           start : [1..columns -> IF rows = 0 THEN {0} ELSE 0..(rows - 1)],
           tail : BOOLEAN, space : BOOLEAN, symbol : Symbols ]
    ELSE { [ reset |-> [ i \in 1..columns |-> FALSE ],
             start |-> [ i \in 1..columns |-> 0 ],
             tail |-> FALSE, space |-> FALSE, symbol |-> "0" ] }

\* the width and height a grid renderer is constructed with
GridWidth(q) == IF ~q.some THEN DefaultWidth ELSE saturating_sub(q.w, GridMargin)
GridHeight(q) == IF ~q.some THEN DefaultHeight ELSE q.h

\* MatrixMotion::new under the terminal size q; random_range(0..rows) panics
\* on the empty range when rows = 0 and there is a column to initialise
MatrixNew(q, rnd) ==
    LET width == GridWidth(q)
        height == GridHeight(q)
        panics == width > 0 /\ height = 0
    IN  [ pc |-> IF panics THEN "panicked" ELSE "ready",
          columns |-> width,
          rows |-> height,
          drops |-> IF panics THEN << >> ELSE [ i \in 1..width |-> 0 - rnd.start[i] ],
          chars |-> IF panics THEN << >> ELSE [ i \in 1..(width * height) |-> Blank ],
          terminal_width |-> width,
          terminal_height |-> height,
          first_update |-> TRUE,
          frame |-> << >>,
          seen |-> q ]

\* variant: the drop array is rebuilt instead of resized
MatrixResizeFresh(m, q) ==
    IF ~q.some
    THEN [ m EXCEPT !.pc = "resized", !.first_update = FALSE, !.seen = q ]
    ELSE LET w == saturating_sub(q.w, GridMargin)
             h == q.h
         IN  [ m EXCEPT
                 !.pc = "resized",
                 !.terminal_width = w, !.terminal_height = h,
                 !.columns = w, !.rows = h,
                 !.drops = IF Len(m.drops) # w THEN [ i \in 1..w |-> ResizeFill ] ELSE m.drops,
                 !.chars = resize(m.chars, w * h, Blank),
                 !.first_update = FALSE,
                 !.seen = q ]

\* the first part of MatrixMotion::update: the size is queried and the two
\* arrays are resized
MatrixResize(m, q) ==
    IF ~q.some
    THEN [ m EXCEPT !.pc = "resized", !.first_update = FALSE, !.seen = q ]
    ELSE LET w == saturating_sub(q.w, GridMargin)
             h == q.h
         IN  [ m EXCEPT
                 !.pc = "resized",
                 !.terminal_width = w, !.terminal_height = h,
                 !.columns = w, !.rows = h,
                 !.drops = resize(m.drops, w, ResizeFill),
                 !.chars = resize(m.chars, w * h, Blank),
                 !.first_update = FALSE,
                 !.seen = q ]

\* update_drops: does drop i start over in this frame
DropResets(m, rnd, i) == m.drops[i] > m.rows + ResetMargin \/ rnd.reset[i]

update_drops(m, rnd) ==
    [ i \in 1..Len(m.drops) |->
        IF DropResets(m, rnd, i) THEN 0 - rnd.start[i] ELSE m.drops[i] + 1 ]

\* the zone of the cell in row `row` (from 0) of a column whose drop is at d
Zone(row, d) ==
    IF row = d THEN "head"
    ELSE IF row < d /\ row > d - TailLength THEN "tail"
    ELSE "space"

\* update_grid over the drops d
update_grid(m, d, rnd) ==
    [ k \in 1..Len(m.chars) |->
        IF k > m.rows * m.columns THEN m.chars[k]
        ELSE LET row == (k - 1) \div m.columns
                 col == (k - 1) % m.columns
                 z == Zone(row, d[col + 1])
             IN  IF z = "head" THEN rnd.symbol
                 ELSE IF z = "tail" THEN (IF rnd.tail THEN rnd.symbol ELSE m.chars[k])
                 ELSE (IF rnd.space THEN rnd.symbol ELSE Blank) ]

\* the colour class the rendering loop gives the cell in row `row` (from 0)
\* of a column whose drop is at d: bright white 15, fading green, dim green 22
ColourZone(row, d) ==
    IF row = d THEN "head"
    ELSE IF row < d /\ row > d - TailLength THEN "tail"
    ELSE "space"

\* the rendering loop of MatrixMotion::update over the drops d: the colour
\* class of every cell printed, row by row
render(m, d) ==
    [ k \in 1..(m.rows * m.columns) |->
        ColourZone((k - 1) \div m.columns, d[((k - 1) % m.columns) + 1]) ]

\* variant: the grid is refreshed before the drops move
MatrixAdvanceStale(m, rnd) ==
    IF m.rows = 0 /\ \E i \in 1..Len(m.drops) : DropResets(m, rnd, i)
    THEN [ m EXCEPT !.pc = "panicked" ]
    ELSE LET d == update_drops(m, rnd)
         IN  [ m EXCEPT !.pc = "ready", !.drops = d,
                        !.chars = update_grid(m, m.drops, rnd),
                        !.frame = render(m, d) ]

\* the second part of MatrixMotion::update: update_drops, update_grid and the
\* rendering of the frame
MatrixAdvance(m, rnd) ==
    IF m.rows = 0 /\ \E i \in 1..Len(m.drops) : DropResets(m, rnd, i)
    THEN [ m EXCEPT !.pc = "panicked" ]
    ELSE LET d == update_drops(m, rnd)
         IN  [ m EXCEPT !.pc = "ready", !.drops = d,
                        !.chars = update_grid(m, d, rnd),
                        !.frame = render(m, d) ]

\* MatrixMotion::update, lines 123-146
matrix_update_resize ==
    /\ kind = "Matrix"
    /\ matrix.pc = "ready"
    /\ matrix' = MatrixResize(matrix, term)
    /\ ~cursor.dropped
    /\ cursor' = HideOnFirst(cursor, matrix.first_update)
    /\ UNCHANGED << kind, term, now, crab, mandel, clock, iter, cell >>
    /\ UNCHANGED runVars

\* MatrixMotion::update, lines 149-184
matrix_update_advance ==
    /\ kind = "Matrix"
    /\ matrix.pc = "resized"
    /\ \E rnd \in RandomOutcomes(matrix.columns, matrix.rows) :
           matrix' = MatrixAdvance(matrix, rnd)
    /\ ~cursor.dropped
    /\ UNCHANGED << kind, term, now, crab, mandel, clock, iter, cell, cursor >>
    /\ UNCHANGED runVars


---------------------------------------------------------------------------
\* FractalZoom: motion/mandelbrot.rs.  Angles are counted in their increments
\* (breathing_cycle in steps of 0.01, rotation_angle in steps of 0.005,
\* color_shift in steps of 0.2), the zoom in thousandths and the centre in
\* millionths.

max_iterations == 100
MaxFrames == 15100

\* (x, y, zoom_level), x and y in millionths
waypoints ==
    << << -500000, 0, 1 >>,
       << -750000, 100000, 10 >>,
       << 300000, 0, 50 >>,
       << -159200, 1031700, 100 >>,
       << -800000, 156000, 200 >>,
       << 0, 800000, 500 >>,
       << -235125, 827215, 1000 >>,
       << -726900, 188900, 2000 >> >>

PiMilli == 3142
TwoPiMilli == 6283
\* the largest whole number of thousandths below 6 * pi = 18.849556
SixPiMilli == 18849

\* sin over [0, pi], argument and value in thousandths (Bhaskara's rational
\* approximation, within 0.002 of sin and never above 1)
HalfSine(r) ==
    LET p == r * (PiMilli - r)
        v == (16 * p) \div ((5 * PiMilli * PiMilli - 4 * p) \div 1000)
    IN  IF v > 1000 THEN 1000 ELSE v

\* f64::sin and f64::cos of an angle x >= 0, in thousandths
sin(x) ==
    LET r == x % TwoPiMilli
    IN  IF r <= PiMilli THEN HalfSine(r) ELSE 0 - HalfSine(r - PiMilli)

cos(x) == sin(x + 1571)

\* MandelbrotMotion::new under the terminal size q
MandelbrotNew(q) ==
    [ terminal_width |-> GridWidth(q),
      terminal_height |-> GridHeight(q),
      first_update |-> TRUE,
      frame_count |-> 0,
      center_x |-> waypoints[1][1],
      center_y |-> waypoints[1][2],
      zoom |-> 1000 * waypoints[1][3],
      rotation_angle |-> 0,
      color_shift |-> 0,
      breathing_cycle |-> 0,
      base_zoom |-> waypoints[1][3],
      waypoint_index |-> 0,
      seen |-> q ]

\* 0.5 + (sin(breathing_cycle) + 1.0) * 0.75, in thousandths, for the
\* breathing cycle after n steps of 0.01
zoom_multiplier(n) == 500 + ((sin(10 * n) + 1000) * 3) \div 4

\* variant: the index stops at the last waypoint instead of wrapping
update_animation_clamped(m) ==
    LET cycle == m.breathing_cycle + 1
        should_cycle == 10 * cycle > SixPiMilli
        index == IF m.waypoint_index + 1 < Len(waypoints)
                 THEN m.waypoint_index + 1 ELSE m.waypoint_index
        waypoint == waypoints[index + 1]
    IN  [ m EXCEPT
            !.breathing_cycle = IF should_cycle THEN 0 ELSE cycle,
            !.zoom = m.base_zoom * zoom_multiplier(cycle),
            !.rotation_angle = m.rotation_angle + 1,
            !.color_shift = m.color_shift + 1,
            !.waypoint_index = IF should_cycle THEN index ELSE m.waypoint_index,
            !.center_x = IF should_cycle THEN waypoint[1] + sin(m.frame_count) * 5 ELSE m.center_x,
            !.center_y = IF should_cycle THEN waypoint[2] + cos(m.frame_count) * 5 ELSE m.center_y,
            !.base_zoom = IF should_cycle THEN waypoint[3] ELSE m.base_zoom ]

\* update_animation
update_animation(m) ==
    LET cycle == m.breathing_cycle + 1
        should_cycle == 10 * cycle > SixPiMilli
        index == (m.waypoint_index + 1) % Len(waypoints)
        waypoint == waypoints[index + 1]
    IN  [ m EXCEPT
            !.breathing_cycle = IF should_cycle THEN 0 ELSE cycle,
            !.zoom = m.base_zoom * zoom_multiplier(cycle),
            !.rotation_angle = m.rotation_angle + 1,
            !.color_shift = m.color_shift + 1,
            !.waypoint_index = IF should_cycle THEN index ELSE m.waypoint_index,
            !.center_x = IF should_cycle THEN waypoint[1] + sin(m.frame_count) * 5 ELSE m.center_x,
            !.center_y = IF should_cycle THEN waypoint[2] + cos(m.frame_count) * 5 ELSE m.center_y,
            !.base_zoom = IF should_cycle THEN waypoint[3] ELSE m.base_zoom ]

\* variant: an unavailable size puts the default size back
MandelbrotStepDefaults(m, q) ==
    LET sized == IF ~q.some
                 THEN [ m EXCEPT !.terminal_width = DefaultWidth,
                                 !.terminal_height = DefaultHeight ]
                 ELSE [ m EXCEPT !.terminal_width = saturating_sub(q.w, GridMargin),
                                 !.terminal_height = q.h ]
        a == update_animation(sized)
    IN  [ a EXCEPT !.first_update = FALSE, !.frame_count = m.frame_count + 1, !.seen = q ]

\* MandelbrotMotion::update under the terminal size q
MandelbrotStep(m, q) ==
    LET sized == IF ~q.some THEN m
                 ELSE [ m EXCEPT !.terminal_width = saturating_sub(q.w, GridMargin),
                                 !.terminal_height = q.h ]
        a == update_animation(sized)
    IN  [ a EXCEPT !.first_update = FALSE, !.frame_count = m.frame_count + 1, !.seen = q ]

\* one call of MandelbrotMotion::update
mandelbrot_update ==
    /\ kind = "Mandelbrot"
    /\ mandel.frame_count < MaxFrames
    /\ mandel' = MandelbrotStep(mandel, term)
    /\ ~cursor.dropped
    /\ cursor' = HideOnFirst(cursor, mandel.first_update)
    /\ UNCHANGED << kind, term, now, crab, matrix, clock, iter, cell >>
    /\ UNCHANGED runVars


---------------------------------------------------------------------------
\* mandelbrot_iterations, one action per turn of its loop.  The points tried
\* have whole-number coordinates, on which the f64 arithmetic is exact.

PointRange == 10
EscapeNorm == 4

Points == (0 - PointRange)..PointRange

\* the call mandelbrot_iterations(x, y) at its entry
IterationsEntry(x, y) ==
    [ x |-> x, y |-> y, zx |-> 0, zy |-> 0, iterations |-> 0, pc |-> "loop" ]

\* variant: the loop is not bounded by max_iterations
LoopUnbounded(it) == it.zx * it.zx + it.zy * it.zy < EscapeNorm

\* variant: the loop stops one turn early
LoopShort(it) ==
    it.iterations < max_iterations - 1 /\ it.zx * it.zx + it.zy * it.zy < EscapeNorm

\* the condition of the while loop
LoopContinues(it) ==
    it.iterations < max_iterations /\ it.zx * it.zx + it.zy * it.zy < EscapeNorm

\* one turn of the loop
iterations_step ==
    /\ iter.pc = "loop"
    /\ LoopContinues(iter)
    /\ LET xtemp == iter.zx * iter.zx - iter.zy * iter.zy + iter.x
       IN  iter' = [ iter EXCEPT !.zy = 2 * iter.zx * iter.zy + iter.y,
                                 !.zx = xtemp,
                                 !.iterations = iter.iterations + 1 ]
    /\ UNCHANGED << kind, term, now, crab, matrix, mandel, clock, cell, cursor >>
    /\ UNCHANGED runVars

\* the loop is left and `iterations` is returned
iterations_return ==
    /\ iter.pc = "loop"
    /\ ~LoopContinues(iter)
    /\ iter' = [ iter EXCEPT !.pc = "returned" ]
    /\ UNCHANGED << kind, term, now, crab, matrix, mandel, clock, cell, cursor >>
    /\ UNCHANGED runVars

InitIter ==
    /\ IdleRun
    /\ kind = "None" /\ term = NoTerm /\ now = << 0, 0, 0 >>
    /\ crab = "None" /\ matrix = "None" /\ mandel = "None" /\ clock = "None"
    /\ \E x \in Points, y \in Points : iter = IterationsEntry(x, y)
    /\ cell = "None" /\ mac = "None"
    /\ cursor = CursorNew

NextIter == iterations_step \/ iterations_return

SpecIter == InitIter /\ [][NextIter]_vars

\* the call keeps running until it returns
SpecIterFair == SpecIter /\ WF_vars(NextIter)

---------------------------------------------------------------------------
\* DigitalClock: motion/clock.rs

MaxClockFrames == 2

Times == (0..23) \X (0..59) \X (0..59)
SampleTimes == { << 0, 0, 0 >>, << 9, 41, 7 >>, << 18, 36, 58 >>, << 23, 59, 9 >> }

\* ClockMotion::new under the terminal size q; `shown` is the row of digits
\* of the last frame drawn
ClockNew(q) ==
    [ terminal_width |-> GridWidth(q),
      terminal_height |-> GridHeight(q),
      first_update |-> TRUE,
      frame_count |-> 0,
      last_second |-> 0,
      shown |-> << >>,
      glyphs |-> << >>,
      seen |-> q ]

\* the substitute characters of the digits 0..9 (index digit + 1); a character
\* outside ASCII is written as its code point
cycling_chars ==
    << << "0", "O", "o", "U+00B0", "U+25CB", "U+25EF", "U+25C9", "U+25CF", "U+25C6", "U+25C7", "U+25C8", "U+25CA" >>,
       << "1", "I", "l", "|", "U+2502", "U+2503", "U+2551", "U+254F", "U+254E", "U+250A", "U+250B", "U+2506" >>,
       << "2", "Z", "z", "U+01B5", "U+01B6", "U+2C7F", "U+2C7E", "U+0240", "U+0241", "U+0242", "U+0243", "U+0244" >>,
       << "3", "E", "e", "U+0190", "U+03B5", "U+025B", "U+2203", "U+2204", "U+2208", "U+2209", "U+220A", "U+220B" >>,
       << "4", "A", "a", "U+2200", "U+2201", "U+2202", "U+2203", "U+2204", "U+2205", "U+2206", "U+2207", "U+2208" >>,
       << "5", "S", "s", "U+222B", "U+222C", "U+222D", "U+222E", "U+222F", "U+2230", "U+2231", "U+2232", "U+2233" >>,
       << "6", "G", "g", "U+0393", "U+03B3", "U+03B4", "U+03B5", "U+03B6", "U+03B7", "U+03B8", "U+03B9", "U+03BA" >>,
       << "7", "T", "t", "U+03C4", "U+03C5", "U+03C6", "U+03C7", "U+03C8", "U+03C9", "U+03D6", "U+03D7", "U+03D8" >>,
       << "8", "B", "b", "U+221E", "U+221D", "U+221F", "U+2220", "U+2221", "U+2222", "U+2223", "U+2224", "U+2225" >>,
       << "9", "P", "p", "U+03C0", "U+03D6", "U+03D7", "U+03D8", "U+03D9", "U+03DA", "U+03DB", "U+03DC", "U+03DD" >> >>

MaxGlyphFrames == 40

\* get_cycling_char: the substitute changes every 3 frames
get_cycling_char(digit, frame) ==
    LET row == cycling_chars[digit + 1]
        index == (frame \div 3) % Len(row)
    IN  row[index + 1]

\* the rows the glyphs are made of
RowTop == << " ", "_", "_", "_", "_", "_", " " >>
RowSides == << "|", " ", " ", " ", " ", " ", "|" >>
RowBox == << "|", "_", "_", "_", "_", "_", "|" >>
RowRight == << " ", " ", " ", " ", " ", " ", "|" >>
RowRightFoot == << " ", "_", "_", "_", "_", "_", "|" >>
RowLeft == << "|", " ", " ", " ", " ", " ", " " >>
RowLeftFoot == << "|", "_", "_", "_", "_", "_", " " >>
RowStem == << " ", " ", " ", "|", " ", " ", " " >>
RowSidesWith(c) == << "|", " ", " ", c, " ", " ", "|" >>
RowWith(c) == << " ", " ", " ", c, " ", " ", " " >>

\* draw_digit: the five rows of seven characters of a digit
draw_digit(digit, frame) ==
    LET char_to_use == get_cycling_char(digit, frame) IN
    CASE digit = 0 -> << RowTop, RowSides, RowSidesWith(char_to_use), RowSides, RowBox >>
      [] digit = 1 -> << RowStem, RowStem, RowWith(char_to_use), RowStem, RowStem >>
      [] digit = 2 -> << RowTop, RowRight, RowRightFoot, RowLeft, RowLeftFoot >>
      [] digit = 3 -> << RowTop, RowRight, RowRightFoot, RowRight, RowRightFoot >>
      [] digit = 4 -> << RowSides, RowSides, RowBox, RowRight, RowRight >>
      [] digit = 5 -> << RowTop, RowLeft, RowLeftFoot, RowRight, RowRightFoot >>
      [] digit = 6 -> << RowTop, RowLeft, RowLeftFoot, RowSides, RowBox >>
      [] digit = 7 -> << RowTop, RowRight, RowRight, RowRight, RowRight >>
      [] digit = 8 -> << RowTop, RowSides, RowBox, RowSides, RowBox >>
      [] digit = 9 -> << RowTop, RowSides, RowBox, RowRight, RowRightFoot >>

\* variant: the ones digit is taken modulo 6
DigitsSexagesimal(v) == << v \div 10, v % 6 >>

\* the two digits drawn for a field of the time
Digits(v) == << v \div 10, v % 10 >>

\* ClockMotion::update under the terminal size q at the time t
ClockStep(c, q, t) ==
    [ c EXCEPT
        !.terminal_width = IF ~q.some THEN @ ELSE saturating_sub(q.w, GridMargin),
        !.terminal_height = IF ~q.some THEN @ ELSE q.h,
        !.first_update = FALSE,
        !.last_second = t[3],
        !.shown = Digits(t[1]) \o Digits(t[2]) \o Digits(t[3]),
        !.glyphs = LET ds == Digits(t[1]) \o Digits(t[2]) \o Digits(t[3])
                   IN  [ g \in 1..Len(ds) |-> draw_digit(ds[g], c.frame_count) ],
        !.frame_count = c.frame_count + 1,
        !.seen = q ]

\* one call of ClockMotion::update; get_current_time returns `now`
clock_update ==
    /\ kind = "Clock"
    /\ \/ clock.frame_count < MaxClockFrames
       \/ now \in SampleTimes /\ clock.frame_count < MaxGlyphFrames
    /\ clock' = ClockStep(clock, term, now)
    /\ ~cursor.dropped
    /\ cursor' = HideOnFirst(cursor, clock.first_update)
    /\ UNCHANGED << kind, term, now, crab, matrix, mandel, iter, cell >>
    /\ UNCHANGED runVars

\* the clock at any time of the day, on a terminal of unknown size
InitClock ==
    /\ IdleRun
    /\ kind = "Clock" /\ term = NoTerm /\ now \in Times
    /\ crab = "None" /\ matrix = "None" /\ mandel = "None" /\ iter = "None"
    /\ clock = ClockNew(term)
    /\ cell = "None" /\ mac = "None"
    /\ cursor = CursorNew

NextClock == clock_update

SpecClock == InitClock /\ [][NextClock]_vars

---------------------------------------------------------------------------
\* Any of the four renderers, constructed and updated while the terminal is
\* resized.

---------------------------------------------------------------------------
\* FractalZoom: what is printed for one cell, get_character and get_color.
\* color_shift is counted in its increments of 0.2.

MaxShift == 10

FullBlock == "block"
\* the array `chars` of get_character
chars == << " ", ".", ":", ";", "+", "*", "x", "X", "#", FullBlock >>

\* the 216 entries 16, 17, .., 231 of color_palette
color_palette == [ i \in 1..216 |-> 15 + i ]

Min(a, b) == IF a < b THEN a ELSE b

\* variant: the index is rounded to the nearest whole number
get_character_rounded(iterations) ==
    IF iterations = max_iterations THEN FullBlock
    ELSE LET index == (2 * iterations * (Len(chars) - 1) + max_iterations)
                          \div (2 * max_iterations)
         IN  chars[Min(index, Len(chars) - 1) + 1]

\* get_character: `as usize` truncates
get_character(iterations) ==
    IF iterations = max_iterations THEN FullBlock
    ELSE LET index == (iterations * (Len(chars) - 1)) \div max_iterations
         IN  chars[Min(index, Len(chars) - 1) + 1]

\* get_color for color_shift = 0.2 * shift; `as u8` saturates at 255
get_color(iterations, shift) ==
    IF iterations = max_iterations THEN 0
    ELSE LET color_index == Min(((5 * iterations + shift) * 255) \div (5 * max_iterations), 255)
             \* (color_index * 0.1 + color_shift) % 1.0, in tenths
             cycle == (color_index + 2 * shift) % 10
             index == (cycle * (Len(color_palette) - 1)) \div 10
         IN  color_palette[Min(index, Len(color_palette) - 1) + 1]

\* a cell whose iteration count is known, in a frame with the given shift
CellCounted(n, shift) ==
    [ pc |-> "counted", iterations |-> n, color_shift |-> shift,
      color |-> 0, character |-> "", escape |-> "" ]

\* the cell is printed: black for colour 0, a palette colour otherwise
draw_cell ==
    /\ cell.pc = "counted"
    /\ LET color == get_color(cell.iterations, cell.color_shift) IN
          cell' = [ cell EXCEPT !.pc = "printed",
                                !.color = color,
                                !.character = get_character(cell.iterations),
                                !.escape = IF color = 0 THEN "30m" ELSE "38;5" ]
    /\ UNCHANGED << kind, term, now, crab, matrix, mandel, clock, iter, cursor >>
    /\ UNCHANGED runVars

InitCell ==
    /\ IdleRun
    /\ kind = "None" /\ term = NoTerm /\ now = << 0, 0, 0 >>
    /\ crab = "None" /\ matrix = "None" /\ mandel = "None" /\ clock = "None"
    /\ iter = "None" /\ mac = "None"
    /\ cursor = CursorNew
    /\ \E n \in 0..max_iterations, shift \in 1..MaxShift : cell = CellCounted(n, shift)

NextCell == draw_cell

SpecCell == InitCell /\ [][NextCell]_vars

Kinds == {"Crab", "Matrix", "Mandelbrot", "Clock"}

InitRender ==
    /\ IdleRun
    /\ kind \in Kinds
    /\ term \in TermQueries(kind)
    /\ now \in IF kind = "Clock" THEN SampleTimes ELSE { << 0, 0, 0 >> }
    /\ crab = IF kind = "Crab" THEN CrabNew(term) ELSE "None"
    /\ IF kind = "Matrix"
       THEN \E rnd \in RandomOutcomes(GridWidth(term), GridHeight(term)) :
                /\ rnd.tail = FALSE /\ rnd.space = FALSE /\ rnd.symbol = "0"
                /\ \A i \in 1..GridWidth(term) : rnd.reset[i] = FALSE
                /\ matrix = MatrixNew(term, rnd)
       ELSE matrix = "None"
    /\ mandel = IF kind = "Mandelbrot" THEN MandelbrotNew(term) ELSE "None"
    /\ clock = IF kind = "Clock" THEN ClockNew(term) ELSE "None"
    /\ iter = "None"
    /\ cell = "None" /\ mac = "None"
    /\ cursor = CursorNew

NextRender ==
    \/ term_resize
    \/ crab_update
    \/ matrix_update_resize
    \/ matrix_update_advance
    \/ mandelbrot_update
    \/ clock_update

SpecRender == InitRender /\ [][NextRender]_vars

\* the renderer examined, as a record
Renderer ==
    CASE kind = "Crab" -> crab
      [] kind = "Matrix" -> matrix
      [] kind = "Mandelbrot" -> mandel
      [] kind = "Clock" -> clock

\* a Motion exists and is between two updates, or update() is unwinding
\* from a panic
Droppable ==
    /\ kind # "None"
    /\ ~cursor.dropped
    /\ kind = "Matrix" =>
          \/ matrix.pc = "ready"
          \/ matrix.pc = "panicked" /\ ~matrix.first_update

\* Drop of the Motion: print!("\x1B[?25h")
motion_drop ==
    /\ Droppable
    /\ cursor' = [ cursor EXCEPT !.shows = @ + 1, !.dropped = TRUE ]
    /\ UNCHANGED << kind, term, now, crab, matrix, mandel, clock, iter, cell >>
    /\ UNCHANGED runVars

NextCursor == NextRender \/ motion_drop

\* the renderers, each dropped at any moment between two updates
SpecCursor == InitRender /\ [][NextCursor]_vars


---------------------------------------------------------------------------
\* Properties of the renderers

\* a call of CrabMotion::update happens in this step
CrabTick == kind = "Crab" /\ crab' # crab

\* C12: after every update(), whatever the sequence of ticks and of terminal
\* widths (a width that shrinks below the current position included), the
\* Bounce position lies in [0, width] for the width in force on that tick.
C12_BounceBounds ==
    (kind = "Crab" /\ ~crab.first_update) =>
        (0 <= crab.position /\ crab.position <= crab.terminal_width)

\* the width shrank below the position and the update clamped the position
C12_Witness ==
    /\ kind = "Crab"
    /\ ~crab.first_update
    /\ crab.seen.some
    /\ crab.prev_position > crab.terminal_width
    /\ crab.position = crab.terminal_width

\* the direction rule as C13 words it: the direction changes exactly when the
\* step would leave [0, width], and otherwise the position moves by direction
DirectionFlipsOnExceed ==
    CrabTick =>
        LET n == crab.position + crab.direction
            exceeds == n < 0 \/ n > crab'.terminal_width
        IN  /\ (crab'.direction # crab.direction) <=> exceeds
            /\ (crab'.direction = crab.direction) => (crab'.position = n)

\* C13 as stated: the direction is always -1 or +1, it changes on a tick
\* exactly when position + direction would exceed a bound of [0, width], and
\* on every other tick it is unchanged and the position changes by direction.
C13_DirectionAsStated ==
    /\ [](kind = "Crab" => crab.direction \in {-1, 1})
    /\ [][DirectionFlipsOnExceed]_vars

\* the direction rule of the code: the bound is turned at when it is reached
DirectionTurnsOnReach ==
    CrabTick =>
        LET n == crab.position + crab.direction
            tw == crab'.terminal_width
        IN  /\ n <= 0 => (crab'.direction = 1 /\ crab'.position = 0)
            /\ (n > 0 /\ n >= tw) => (crab'.direction = -1 /\ crab'.position = tw)
            /\ (n > 0 /\ n < tw) =>
                   (crab'.direction = crab.direction /\ crab'.position = n)

\* C13, amended: the direction is always -1 or +1; a tick whose step reaches
\* or passes 0 sets the position to 0 and the direction to +1, otherwise a
\* tick whose step reaches or passes the width sets the position to the width
\* and the direction to -1, and on every other tick the direction is
\* unchanged and the position changes by exactly the direction.
C13_DirectionOnReach ==
    /\ [](kind = "Crab" => crab.direction \in {-1, 1})
    /\ [][DirectionTurnsOnReach]_vars

\* the crab stepped onto the right bound and turned there
C13_Witness ==
    /\ kind = "Crab"
    /\ ~crab.first_update
    /\ crab.terminal_width > 1
    /\ crab.position = crab.terminal_width
    /\ crab.prev_position = crab.position - 1
    /\ crab.direction = -1


\* the smaller of two lengths
Shorter(a, b) == IF a < b THEN a ELSE b

\* the resizing part of a Rain update keeps the drops of the columns that
\* exist before and after it
ResizeKeepsDrops ==
    (kind = "Matrix" /\ matrix.pc = "ready" /\ matrix'.pc = "resized") =>
        \A i \in 1..Shorter(Len(matrix.drops), Len(matrix'.drops)) :
            matrix'.drops[i] = matrix.drops[i]

\* C14: when the terminal dimensions change between two ticks, the next tick
\* has exactly `columns` drops and columns*rows cells before it indexes any
\* cell, and the resize leaves the drops of the columns that persist unchanged.
C14_GridResize ==
    /\ []((kind = "Matrix" /\ matrix.pc = "resized") =>
             /\ Len(matrix.drops) = matrix.columns
             /\ Len(matrix.chars) = matrix.columns * matrix.rows)
    /\ [][ResizeKeepsDrops]_vars

\* a one-column grid whose drop had fallen onto the screen was widened to two
\* columns and two rows
C14_Witness ==
    /\ kind = "Matrix"
    /\ matrix.pc = "resized"
    /\ matrix.seen = SomeTerm(4, 2)
    /\ Len(matrix.drops) = 2
    /\ matrix.drops[1] > 0
    /\ matrix.drops[2] = ResizeFill
    /\ Len(matrix.chars) = 4

\* C15: for every sequence of terminal sizes (width 0, height 0 and
\* 'unavailable' included) construction and every update() of each renderer
\* completes without a panic.  Rain is the only renderer with an operation
\* that can panic on a size.
C15_NoPanic == kind = "Matrix" => matrix.pc # "panicked"

\* the dimensions a renderer draws with
Dims ==
    CASE kind = "Crab" -> << crab.terminal_width >>
      [] kind = "Matrix" -> << matrix.terminal_width, matrix.terminal_height,
                               matrix.columns, matrix.rows >>
      [] kind = "Mandelbrot" -> << mandel.terminal_width, mandel.terminal_height >>
      [] kind = "Clock" -> << clock.terminal_width, clock.terminal_height >>
      [] OTHER -> << >>

\* the answer the renderer's last size query got, and whether it has drawn
Seen ==
    CASE kind = "Crab" -> crab.seen
      [] kind = "Matrix" -> matrix.seen
      [] kind = "Mandelbrot" -> mandel.seen
      [] kind = "Clock" -> clock.seen
      [] OTHER -> NoTerm

HasDrawn ==
    CASE kind = "Crab" -> ~crab.first_update
      [] kind = "Matrix" -> ~matrix.first_update /\ matrix.pc = "ready"
      [] kind = "Mandelbrot" -> ~mandel.first_update
      [] kind = "Clock" -> ~clock.first_update
      [] OTHER -> FALSE

IsFresh ==
    CASE kind = "Crab" -> crab.first_update
      [] kind = "Matrix" -> matrix.first_update
      [] kind = "Mandelbrot" -> mandel.first_update
      [] kind = "Clock" -> clock.first_update
      [] OTHER -> FALSE

\* a renderer constructed while the size is unavailable has its default size
ConstructedWithDefault ==
    (kind \in Kinds /\ IsFresh /\ ~Seen.some) =>
        /\ Dims = IF kind = "Crab" THEN << 75 >>
                  ELSE IF kind = "Matrix" THEN << 78, 20, 78, 20 >>
                  ELSE << 78, 20 >>
        /\ kind = "Matrix" =>
               /\ matrix.pc = "ready"
               /\ Len(matrix.drops) = 78
               /\ Len(matrix.chars) = 78 * 20

\* a step taken while the size is unavailable leaves the dimensions alone
UnavailableKeepsDims == (kind \in Kinds /\ ~term.some) => Dims' = Dims

C17_ZoomEnvelope ==
    (kind = "Mandelbrot" /\ mandel.terminal_width > 0 /\ mandel.terminal_height > 0) =>
        /\ 500 * mandel.base_zoom <= mandel.zoom
        /\ mandel.zoom <= 2000 * mandel.base_zoom


\* |z|^2 of the escape-time loop
Norm == iter.zx * iter.zx + iter.zy * iter.zy

\* C18: for every input point the escape-time loop terminates and returns an
\* iteration count in [0, max_iterations]; the count is below max_iterations
\* only if |z|^2 >= 4 was reached.
C18_IterationBound ==
    /\ [](/\ iter.iterations \in 0..max_iterations
          /\ (iter.pc = "returned" /\ iter.iterations < max_iterations) => Norm >= 4)
    /\ <>(iter.pc = "returned")

\* c = 1 escapes on the second turn of the loop, at z = 2
C18_Witness ==
    /\ iter.pc = "returned"
    /\ iter.x = 1 /\ iter.y = 0
    /\ iter.iterations = 2
    /\ Norm >= 4

\* C19: the count of the point c = 0 is max_iterations, and a point far
\* outside the set, such as c = 10+10i, returns after the first turn of the
\* loop, which already brought |z|^2 to 4 or more.
C19_Convergence ==
    iter.pc = "returned" =>
        /\ (iter.x = 0 /\ iter.y = 0) => iter.iterations = max_iterations
        /\ (iter.x = 10 /\ iter.y = 10) => iter.iterations = 1
        /\ (iter.x * iter.x + iter.y * iter.y >= 4) => iter.iterations = 1

\* the call for c = 0 has returned max_iterations
C19_Witness ==
    /\ iter.pc = "returned"
    /\ iter.x = 0 /\ iter.y = 0
    /\ iter.iterations = max_iterations
    /\ Norm = 0

\* C20: for every hour in 0..23 and minute and second in 0..59 each field v
\* is drawn as the digit pair (v div 10, v mod 10), both digits in 0..9 and
\* 10 * tens + ones = v; 23:59:09 is drawn as (2,3), (5,9), (0,9).
C20_DigitDecomposition ==
    (kind = "Clock" /\ ~clock.first_update) =>
        /\ Len(clock.shown) = 6
        /\ \A k \in 1..3 :
               LET tens == clock.shown[2 * k - 1]
                   ones == clock.shown[2 * k]
               IN  /\ tens \in 0..9 /\ ones \in 0..9
                   /\ tens = now[k] \div 10 /\ ones = now[k] % 10
                   /\ 10 * tens + ones = now[k]
        /\ now = << 23, 59, 9 >> => clock.shown = << 2, 3, 5, 9, 0, 9 >>

\* a frame was drawn at 23:59:09
C20_Witness ==
    /\ kind = "Clock"
    /\ ~clock.first_update
    /\ now = << 23, 59, 9 >>
    /\ clock.shown = << 2, 3, 5, 9, 0, 9 >>


---------------------------------------------------------------------------
\* Properties of the run: flags, threads and counters

\* a step of the main thread, and a step of the animation thread
MainStep == mainPc' # mainPc
AnimStep == animPc' # animPc /\ mainPc' = mainPc

\* each flag changes from true to false only, in a step of its one writer
FlagWrites ==
    /\ keepRunning' # keepRunning =>
           /\ keepRunning /\ ~keepRunning'
           /\ handlerSet
           /\ ~MainStep /\ ~AnimStep
    /\ animFlag' # animFlag =>
           /\ animFlag /\ ~animFlag'
           /\ mainPc = "set_flag" /\ mainPc' = "join"
           /\ animPc' = animPc

\* C21: the keep-running flag and the animation stop-flag each start true,
\* change value at most once, from true to false, and are never set back; the
\* stop-flag is written only by the main thread in cleanup, the keep-running
\* flag only by the interrupt handler, and the animation thread writes neither.
C21_FlagsMonotonic ==
    /\ [](~handlerSet => keepRunning)
    /\ [](mainPc \in {"new", "with_motion", "run"} => animFlag)
    /\ [][FlagWrites]_vars
    /\ [][~keepRunning => ~keepRunning']_vars
    /\ [][~animFlag => ~animFlag']_vars

\* both flags were cleared, each by its writer, and the thread has ended
C21_Witness ==
    /\ ~keepRunning /\ stopPc # "none"
    /\ ~animFlag /\ animPc = "done" /\ joinResult = "Ok"
    /\ mainPc = "msg"


\* run() is past start_animation_thread
PastSpawn == mainPc \notin {"new", "with_motion", "run"}

\* the step that spawns the animation thread
Spawn == animPc = "unspawned" /\ animPc' # "unspawned"

\* the thread is spawned by start_animation_thread, which moves the Motion
SpawnMovesMotion ==
    Spawn => /\ mainPc = "run" /\ mainPc' = "setup_signal"
             /\ motion # "None"
             /\ threadMotion' = motion
             /\ motion' = "None"

\* start_animation_thread is not reached a second time
NoSecondSpawn ==
    PastSpawn => /\ mainPc' # "run"
                 /\ ~Spawn
                 /\ animation_thread_is_some => animPc' # "unspawned"

\* update() is called by the animation thread only
UpdateByThread == updateCalls' # updateCalls => (AnimStep /\ animPc = "update")

\* C22 as stated: exactly one animation thread exists for the lifetime of a
\* run.
C22_OneThreadAsStated == (Running /\ PastSpawn) => animation_thread_is_some

\* C22, amended: a run spawns at most one animation thread, exactly one when
\* a Motion was selected and none otherwise; the Motion is moved into the
\* thread at spawn, after which BusyCrab holds no Motion, never calls update()
\* itself, and cannot spawn a second animation thread.
C22_OneThread ==
    /\ [](PastSpawn => (animation_thread_is_some <=> SelectMotion(motionArg) # "None"))
    /\ [](PastSpawn => motion = "None")
    /\ [](animation_thread_is_some => threadMotion \in {SelectMotion(motionArg), "Dropped"})
    /\ [](~animation_thread_is_some => threadMotion = "None" /\ updateCalls = 0)
    /\ [][SpawnMovesMotion]_vars
    /\ [][NoSecondSpawn]_vars
    /\ [][UpdateByThread]_vars

\* the thread owns the Rain renderer and has drawn two frames while the main
\* thread, which holds no Motion, is in its second activity cycle
C22_Witness ==
    /\ animPc = "sleep"
    /\ threadMotion = "Matrix" /\ motion = "None"
    /\ updateCalls = 2
    /\ mainPc = "prevent_sleep" /\ activity_count = 1


\* C23 as stated: every run() on Linux ends in the first activity cycle, with
\* exactly one prevent_sleep call, no mouse move, the activity counter 0 and
\* Err as the result of run().
C23_LinuxAsStated ==
    (platform = "Linux" /\ RunReturned) =>
        /\ sleepCalls = 1
        /\ moves = << >>
        /\ activity_count = 0
        /\ runResult \in Errors

\* C23, amended: on Linux prevent_sleep always returns an error, so no run()
\* gets past its first activity cycle: there is never a mouse move and the
\* activity counter stays 0; run() returns that error after exactly one
\* prevent_sleep call, unless the keep-running flag was cleared before the
\* loop read it for the first time, in which case there is no prevent_sleep
\* call and run() returns Ok.
C23_Linux ==
    platform = "Linux" =>
        /\ lastSleep \in {"none", NotImplemented}
        /\ sleepCalls <= 1
        /\ moves = << >>
        /\ activity_count = 0
        /\ RunReturned =>
               \/ sleepCalls = 1 /\ runResult = NotImplemented
               \/ sleepCalls = 0 /\ runResult = "Ok" /\ stopPc = "loop_check"

\* a run on Linux has ended with exit code 1 after its one prevent_sleep call
C23_Witness ==
    /\ platform = "Linux"
    /\ procState = "exited" /\ exitCode = 1
    /\ sleepCalls = 1 /\ lastSleep = NotImplemented /\ runResult = NotImplemented
    /\ moves = << >> /\ activity_count = 0


\* C24: if the keep-running flag becomes false then, with every call
\* returning and both threads scheduled fairly, run() eventually returns: the
\* Activity Loop has exited, the animation thread has seen the stop-flag
\* false and ended, and join() has completed.
C24_TerminationAfterStop ==
    ~keepRunning ~>
        (/\ RunReturned
         /\ animation_thread_is_some => (~animFlag /\ AnimFinished /\ Joined))


\* an update() call begins only after a check that read the stop-flag as true
UpdateFollowsCheck ==
    (animPc # "update" /\ animPc' = "update") => (animPc = "read" /\ animFlag)

\* C25: after the main thread has set the stop-flag to false the animation
\* thread begins at most one further update() call, the one whose flag check
\* came before the write; while the flag is true the thread does not leave
\* its loop.
C25_AtMostOneMoreUpdate ==
    /\ [](updatesAfterFlag <= 1)
    /\ [][UpdateFollowsCheck]_vars
    /\ [][(~animFlag /\ updatesAfterFlag = 1) => animPc' # "update"]_vars
    /\ [](animFlag => animPc \notin {"exit", "done"})

\* one update() call was begun after the write, and the thread then ended
C25_Witness ==
    /\ ~animFlag
    /\ updatesAfterFlag = 1
    /\ animPc = "done"
    /\ joinResult = "Ok"

\* C26: the animation thread holds the lock of the stop-flag only while it
\* reads the flag, never during update() or the sleep; so cleanup always gets
\* the lock, the two threads do not deadlock, and a panic inside update()
\* does not poison the lock.
C26_LockHeldForReadOnly ==
    /\ []((Running /\ lockHolder = "anim") => animPc = "read")
    /\ []((Running /\ animPc \in {"update", "sleep"}) => lockHolder # "anim")
    /\ []((Running /\ lockHolder = "main") => mainPc = "set_flag")
    /\ [](~poisoned)
    /\ (mainPc = "cleanup") ~> (mainPc # "cleanup")
    /\ (mainPc = "set_flag") ~> (mainPc # "set_flag")

\* update() has panicked, the lock is not poisoned and cleanup holds it
C26_Witness ==
    /\ animPc = "panicked"
    /\ ~poisoned
    /\ mainPc = "set_flag" /\ lockHolder = "main"


\* the flag was cleared before the first read of the loop condition
FalseAtFirstEntry == stopPc = "loop_check" /\ activity_count = 0

\* with the flag false, the loop condition does not start a cycle
NoCycleBeginsStopped ==
    (~keepRunning /\ mainPc = "loop_check") => mainPc' # "prevent_sleep"

\* C27: once the keep-running flag is false at most one further activity
\* cycle begins: at most one more prevent_sleep call and two more mouse moves;
\* when the flag is already false at the first entry of the loop there is no
\* prevent_sleep call and no mouse move at all.
C27_AtMostOneMoreCycle ==
    /\ [](sleepCallsAfterStop <= 1)
    /\ [](movesAfterStop <= 2)
    /\ [](FalseAtFirstEntry => (sleepCalls = 0 /\ moves = << >>))
    /\ [][NoCycleBeginsStopped]_vars

\* the flag was cleared between the loop condition and prevent_sleep, and the
\* whole cycle that had been decided ran before the loop ended
C27_Witness ==
    /\ stopPc = "prevent_sleep"
    /\ sleepCallsAfterStop = 1
    /\ movesAfterStop = 2
    /\ mainPc = "msg"


CeilDiv(a, b) == (a + b - 1) \div b

\* one slice: positive, at most 200 ms, taken off the remaining time
SliceBounded ==
    (mainPc = "wait_sleep" /\ mainPc' # "wait_sleep") =>
        /\ 0 < lastSlice' /\ lastSlice' <= StepSleepMs
        /\ waitSlept' = waitSlept + lastSlice'
        /\ remaining' = remaining - lastSlice'
        /\ waitSlices' = waitSlices + 1

\* the value returned is the flag at the final read: true goes back to the
\* loop condition, false breaks the loop
ReturnsFinalRead ==
    (mainPc = "wait_ret" /\ mainPc' # "wait_ret") =>
        /\ keepRunning => mainPc' = "loop_check"
        /\ ~keepRunning => mainPc' = AfterActivityLoop

\* C28: wait_for_next_cycle always terminates; when the keep-running flag
\* stays true it sleeps in slices of at most 200 ms whose total is exactly the
\* interval, in ceil(interval / 200 ms) slices (none for interval 0), and
\* returns true; it returns false exactly when the flag is false at its final
\* read.
C28_WaitSlices ==
    /\ (mainPc \in WaitPcs) ~> (mainPc \notin WaitPcs)
    /\ [][SliceBounded]_vars
    /\ []((mainPc = "wait_ret" /\ keepRunning) =>
            /\ waitSlept = interval
            /\ waitSlices = CeilDiv(interval, StepSleepMs)
            /\ remaining = 0)
    /\ []((mainPc \in WaitPcs /\ interval = 0) => waitSlices = 0)
    /\ [][ReturnsFinalRead]_vars

\* a wait of one second has returned true after five slices
C28_Witness ==
    /\ mainPc = "loop_check" /\ keepRunning
    /\ activity_count = 1
    /\ interval = SecMs
    /\ waitSlices = 5 /\ waitSlept = SecMs


\* positions of run_activity_loop between two cycles: the loop condition, the
\* return of execute_activity_cycle and the wait; and everything after the
\* loop has returned
CycleBoundary ==
    \/ mainPc \in {"loop_check", "cycle_ret", "cleanup", "set_flag", "join", "msg",
                   "run_ok", "run_err"} \cup WaitPcs
    \/ mainPc = "exited" /\ runResult # "none"

\* C29: at every cycle boundary of the activity loop the activity counter
\* equals the number of prevent_sleep calls that returned Ok, and the number
\* of mouse moves made so far is twice the counter.
C29_CounterConsistency ==
    CycleBoundary => (activity_count = sleepOk /\ Len(moves) = 2 * activity_count)

\* two cycles have completed and the loop is back at its condition
C29_Witness ==
    /\ mainPc = "loop_check"
    /\ activity_count = 2 /\ sleepOk = 2
    /\ Len(moves) = 4


---------------------------------------------------------------------------
\* Properties of the rain drops

\* one tick of update_drops and update_grid
MatrixTick == kind = "Matrix" /\ matrix.pc = "resized" /\ matrix'.pc # "resized"

\* every drop advanced by one or started over above the screen, and a drop
\* past rows + 10 started over
DropsAdvanceOrRestartAbove ==
    MatrixTick =>
        /\ matrix'.pc = "ready"
        /\ \A i \in 1..Len(matrix.drops) :
              /\ \/ matrix'.drops[i] = matrix.drops[i] + 1
                 \/ matrix'.drops[i] < 0
              /\ matrix.drops[i] > matrix.rows + ResetMargin => matrix'.drops[i] < 0
              /\ matrix'.drops[i] <= matrix.rows + ResetMargin + 1

\* C30: on each tick every column's drop either increases by exactly 1 or is
\* reset to a random negative starting row, off the screen above; a drop whose
\* value exceeds rows + 10 is always reset, so after every tick no drop
\* exceeds rows + 11.
C30_DropAdvance == [][DropsAdvanceOrRestartAbove]_vars


\* the cell at index k (from 1) of the grid after a tick: its colour class is
\* the zone of its row against the column's drop, and its symbol was refreshed
\* by the rule of that zone
CellZoned(k) ==
    LET row == (k - 1) \div matrix'.columns
        d == matrix'.drops[((k - 1) % matrix'.columns) + 1]
        z == matrix'.frame[k]
    IN  /\ z \in {"head", "tail", "space"}
        /\ z = "head" <=> row = d
        /\ z = "tail" <=> (row < d /\ row > d - TailLength)
        /\ z = "head" => matrix'.chars[k] \in Symbols
        /\ z = "tail" => matrix'.chars[k] \in Symbols \cup {matrix.chars[k]}
        /\ z = "space" => matrix'.chars[k] \in Symbols \cup {Blank}

ZonesAgree ==
    (MatrixTick /\ matrix'.pc = "ready") =>
        /\ Len(matrix'.frame) = matrix'.rows * matrix'.columns
        /\ Len(matrix'.chars) = Len(matrix'.frame)
        /\ \A k \in 1..Len(matrix'.frame) : CellZoned(k)

\* C31: on every tick each cell of the rain grid falls in exactly one zone and
\* the zone that refreshes its symbol is the zone that colours it: the head
\* (row equal to the drop position) gets a new symbol, a tail cell (above the
\* head, less than 8 rows away) keeps its symbol unless it flickers, and every
\* other cell is blank or a random symbol.
C31_RainZones == [][ZonesAgree]_vars

\* in the default grid the drop of the first column is at row 10: head there,
\* tail above it, empty space at the top
C31_Witness ==
    /\ kind = "Matrix" /\ matrix.pc = "ready"
    /\ matrix.columns = DefaultWidth /\ matrix.rows = DefaultHeight
    /\ matrix.drops[1] = 10
    /\ matrix.frame[1 + 10 * DefaultWidth] = "head"
    /\ matrix.chars[1 + 10 * DefaultWidth] \in Symbols
    /\ matrix.frame[1 + 9 * DefaultWidth] = "tail"
    /\ matrix.frame[1] = "space" /\ matrix.chars[1] = Blank


---------------------------------------------------------------------------
\* Properties of FractalZoom's waypoints and glyphs

\* a call of MandelbrotMotion::update happens in this step
MandelTick == kind = "Mandelbrot" /\ mandel'.frame_count # mandel.frame_count

\* the breathing phase of this tick, after its increment, exceeds 6 * pi
PhaseExceeds == 10 * (mandel.breathing_cycle + 1) > SixPiMilli

WaypointStep ==
    MandelTick =>
        IF PhaseExceeds
        THEN /\ mandel'.breathing_cycle = 0
             /\ mandel'.waypoint_index = (mandel.waypoint_index + 1) % Len(waypoints)
        ELSE /\ mandel'.breathing_cycle = mandel.breathing_cycle + 1
             /\ mandel'.waypoint_index = mandel.waypoint_index
             /\ mandel'.base_zoom = mandel.base_zoom
             /\ mandel'.center_x = mandel.center_x
             /\ mandel'.center_y = mandel.center_y

\* C32: the waypoint index is always within [0, number of waypoints); on the
\* tick where the breathing phase exceeds 6 * pi the phase resets to 0 and the
\* index advances by one modulo the number of waypoints; on every other tick
\* index, base zoom and centre are unchanged; the base zoom always equals the
\* zoom of waypoints[index].
C32_WaypointCycling ==
    /\ [](kind = "Mandelbrot" =>
            /\ mandel.waypoint_index \in 0..(Len(waypoints) - 1)
            /\ mandel.base_zoom = waypoints[mandel.waypoint_index + 1][3])
    /\ [][WaypointStep]_vars

\* the eighth waypoint change has wrapped the index back to the first waypoint
C32_Witness ==
    /\ kind = "Mandelbrot"
    /\ mandel.frame_count = 8 * 1885
    /\ mandel.breathing_cycle = 0
    /\ mandel.waypoint_index = 0
    /\ mandel.base_zoom = 1


\* the place of a character in the gradient, from 1
Rank(c) == CHOOSE i \in 1..Len(chars) : chars[i] = c

\* C33: a cell is drawn as inside the set (filled block, black, colour 0)
\* exactly when its iteration count equals max_iterations; every smaller count
\* maps to one of the nine gradient characters, non-decreasing in the count,
\* and to a colour index of the palette range 16..231.
C33_InsideMarking ==
    cell.pc = "printed" =>
        /\ (cell.character = FullBlock) <=> (cell.iterations = max_iterations)
        /\ (cell.color = 0) <=> (cell.iterations = max_iterations)
        /\ (cell.escape = "30m") <=> (cell.iterations = max_iterations)
        /\ cell.iterations < max_iterations =>
              /\ \E i \in 1..(Len(chars) - 1) : cell.character = chars[i]
              /\ \A n \in 0..cell.iterations :
                    Rank(get_character(n)) <= Rank(cell.character)
              /\ cell.color \in 16..231

\* the largest count outside the set is printed with the last gradient
\* character, in a palette colour
C33_Witness ==
    /\ cell.pc = "printed"
    /\ cell.iterations = max_iterations - 1
    /\ cell.character = "#"
    /\ cell.color \in 16..231
    /\ cell.escape = "38;5"


---------------------------------------------------------------------------
\* Properties of DigitalClock's glyphs

\* the glyph has an interior position that shows the substitute character c
ShowsInside(glyph, c) == \E r \in 2..4, col \in 2..6 : glyph[r][col] = c

\* the glyph is five rows of seven characters
FiveBySeven(glyph) == Len(glyph) = 5 /\ \A r \in 1..5 : Len(glyph[r]) = 7

\* C34: for every digit 0..9 the glyph drawn, 5 rows of 7 columns, has an
\* interior position that shows the digit's current substitute character,
\* which advances to the next substitute every 3 frames and wraps after the
\* last one.
C34_CyclingGlyph ==
    (kind = "Clock" /\ clock.frame_count > 0) =>
        \A g \in 1..Len(clock.shown) :
            /\ FiveBySeven(clock.glyphs[g])
            /\ ShowsInside(clock.glyphs[g],
                           get_cycling_char(clock.shown[g], clock.frame_count - 1))


---------------------------------------------------------------------------
\* Properties of the cursor sequences

\* once the cursor-show is out, no update follows
NoUpdateAfterShow ==
    cursor.shows > 0 => UNCHANGED << crab, matrix, mandel, clock, cursor >>

\* the show is emitted by the drop, and by nothing else
ShowOnlyByDrop ==
    cursor'.shows # cursor.shows =>
        /\ ~cursor.dropped /\ cursor'.dropped
        /\ cursor'.shows = cursor.shows + 1
        /\ cursor'.hides = cursor.hides

\* C35: each renderer emits the cursor-hide sequence on its first update()
\* only, once over any number of updates, and emits the cursor-show once, when
\* it is dropped, never between two updates.
C35_CursorPairing ==
    /\ [](kind # "None" =>
            /\ cursor.hides = IF Renderer.first_update THEN 0 ELSE 1
            /\ cursor.shows = IF cursor.dropped THEN 1 ELSE 0)
    /\ [][ShowOnlyByDrop]_vars
    /\ [][NoUpdateAfterShow]_vars

\* the clock was updated twice and then dropped: one hide, one show
C35_Witness ==
    /\ kind = "Clock"
    /\ clock.frame_count = 2
    /\ cursor.hides = 1
    /\ cursor.shows = 1 /\ cursor.dropped


---------------------------------------------------------------------------
\* Properties of the Bounce data model

\* the range as C36 words it: half-open, the width excluded
C36_RangeAsStated ==
    kind = "Crab" => (0 <= crab.position /\ crab.position < crab.terminal_width)

\* C36: the Bounce position is an integer of the closed range [0, width] in
\* every reachable state, construction included; width is the width stored
\* by the last size query that succeeded.
C36_PositionRange ==
    kind = "Crab" =>
        /\ crab.position \in Nat
        /\ crab.position <= crab.terminal_width
        /\ crab.first_update => crab.position = 0

\* the crab stands on the right bound of a terminal four columns wide
C36_Witness ==
    /\ kind = "Crab"
    /\ crab.terminal_width = 4
    /\ crab.position = crab.terminal_width
    /\ crab.direction = -1


---------------------------------------------------------------------------
\* Properties of the mouse movement

\* a + b = 0 for two 32-bit values: the minimum value has no counterpart
SumsToZero(a, b) == a # MinI32 /\ b = 0 - a

\* C37: for every wiggle distance of the 32-bit signed range (negative values,
\* 0 and the minimum value included) simulate_activity requests (w, 0) and
\* then (-w, 0) without arithmetic overflow, so that the requested
\* displacements sum to zero.
C37_NetZeroMovement ==
    /\ mainPc # "panicked"
    /\ mainPc = "count" =>
          LET n == Len(moves) IN
            /\ moves[n - 1] = << wiggle_distance, 0 >>
            /\ moves[n][2] = 0
            /\ SumsToZero(moves[n - 1][1], moves[n][1])


---------------------------------------------------------------------------
\* The macOS platform: platform/macos.rs.  `system` is what the power
\* management of the operating system holds for the process: next_id counts
\* the assertions it has created (each gets a fresh, non-zero id), `held` the
\* ones created and not released, `releases` the ids IOPMAssertionRelease was
\* called with, in order.

MaxSleepCalls == 6

DisplayFailed == "Failed to create display sleep assertion"
SystemFailed == "Failed to create system sleep assertion"

\* Platform::new
PlatformNew ==
    [ pc |-> "live",
      display_assertion_id |-> 0,
      system_assertion_id |-> 0,
      next_id |-> 0,
      held |-> {},
      releases |-> << >>,
      calls |-> 0,
      result |-> "none" ]

\* IOPMAssertionCreateWithName succeeded: a fresh id of the given type is held
Created(m, type) ==
    [ m EXCEPT !.next_id = @ + 1,
               !.held = @ \cup { [ id |-> m.next_id + 1, type |-> type ] } ]

\* IOPMAssertionRelease(id)
Released(m, id) ==
    [ m EXCEPT !.held = { a \in @ : a.id # id },
               !.releases = Append(@, id) ]

\* swap(0) of an id field followed by `if id != 0 { IOPMAssertionRelease(id) }`
ReleaseDisplay(m) ==
    IF m.display_assertion_id = 0 THEN m
    ELSE [ Released(m, m.display_assertion_id) EXCEPT !.display_assertion_id = 0 ]

ReleaseSystem(m) ==
    IF m.system_assertion_id = 0 THEN m
    ELSE [ Released(m, m.system_assertion_id) EXCEPT !.system_assertion_id = 0 ]

\* lines 89-107: the display assertion is created when its id is 0; ok1 is
\* whether IOPMAssertionCreateWithName returns kIOReturnSuccess
DisplayPart(m, ok1) ==
    IF m.display_assertion_id # 0 THEN m
    ELSE IF ~ok1 THEN [ m EXCEPT !.result = DisplayFailed ]
    ELSE LET c == Created(m, "display")
         IN  [ c EXCEPT !.display_assertion_id = c.next_id ]

\* variant: a failed creation of the system assertion clears the display id
\* without releasing the assertion
SystemPartLeak(m, ok2) ==
    IF m.system_assertion_id # 0 THEN [ m EXCEPT !.result = "Ok" ]
    ELSE IF ~ok2
         THEN [ m EXCEPT !.display_assertion_id = 0, !.result = SystemFailed ]
    ELSE LET c == Created(m, "system")
         IN  [ c EXCEPT !.system_assertion_id = c.next_id, !.result = "Ok" ]

\* lines 110-136: the system assertion is created when its id is 0; on failure
\* the display assertion is released and its id cleared
SystemPart(m, ok2) ==
    IF m.system_assertion_id # 0 THEN [ m EXCEPT !.result = "Ok" ]
    ELSE IF ~ok2
         THEN [ ReleaseDisplay(m) EXCEPT !.result = SystemFailed ]
    ELSE LET c == Created(m, "system")
         IN  [ c EXCEPT !.system_assertion_id = c.next_id, !.result = "Ok" ]

\* Platform::prevent_sleep
PreventSleep(m, ok1, ok2) ==
    LET entered == [ m EXCEPT !.calls = @ + 1, !.result = "none" ]
        d == DisplayPart(entered, ok1)
    IN  IF d.result = DisplayFailed THEN d ELSE SystemPart(d, ok2)

\* one call of prevent_sleep
mac_prevent_sleep ==
    /\ mac.pc = "live"
    /\ mac.calls < MaxSleepCalls
    /\ \E ok1 \in BOOLEAN, ok2 \in BOOLEAN : mac' = PreventSleep(mac, ok1, ok2)
    /\ UNCHANGED renderVars
    /\ UNCHANGED << configVars, mainVars, capVars, animVars, outVars, procVars, stopVars, waitVars >>

\* Drop for Platform
mac_drop ==
    /\ mac.pc = "live"
    /\ mac' = [ ReleaseSystem(ReleaseDisplay(mac)) EXCEPT !.pc = "dropped" ]
    /\ UNCHANGED renderVars
    /\ UNCHANGED << configVars, mainVars, capVars, animVars, outVars, procVars, stopVars, waitVars >>

InitMac ==
    /\ IdleRun
    /\ NoRender
    /\ mac = PlatformNew

NextMac == mac_prevent_sleep \/ mac_drop

SpecMac == InitMac /\ [][NextMac]_vars

\* how many times IOPMAssertionRelease was called with the id
ReleaseCount(id) == Cardinality({ i \in 1..Len(mac.releases) : mac.releases[i] = id })

HeldOfType(type) == { a \in mac.held : a.type = type }

\* a call in which the creation of the system assertion failed
SystemCreationFailed == mac'.calls # mac.calls /\ mac'.result = SystemFailed

FailureReleasesDisplay ==
    SystemCreationFailed =>
        /\ mac'.display_assertion_id = 0
        /\ { a \in mac'.held : a.type = "display" } = {}
        /\ mac'.next_id = mac.next_id + 1
        /\ mac'.releases = Append(mac.releases, mac'.next_id)

\* C38: over any sequence of prevent_sleep calls, succeeding or failing,
\* followed by drop, at most one display assertion and one system assertion
\* are held at any time, a failed creation of the system assertion releases
\* the display assertion and clears its id, and every assertion ever created
\* is released exactly once.
C38_AssertionBalance ==
    /\ [](/\ Cardinality(HeldOfType("display")) <= 1
          /\ Cardinality(HeldOfType("system")) <= 1
          /\ \A id \in 1..mac.next_id :
                /\ ReleaseCount(id) <= 1
                /\ ReleaseCount(id) = 0 <=> \E a \in mac.held : a.id = id
                /\ ReleaseCount(id) = 0 =>
                      id \in {mac.display_assertion_id, mac.system_assertion_id}
          /\ mac.pc = "dropped" =>
                /\ mac.held = {}
                /\ \A id \in 1..mac.next_id : ReleaseCount(id) = 1)
    /\ [][FailureReleasesDisplay]_vars

\* a call failed on the system assertion, the next one succeeded, and the
\* platform was dropped: three assertions created, three released
C38_Witness ==
    /\ mac.pc = "dropped"
    /\ mac.calls = 2 /\ mac.result = "Ok"
    /\ mac.next_id = 3
    /\ mac.releases = << 1, 2, 3 >>
    /\ mac.held = {}

=============================================================================
